---------------------------- MODULE Spec2Model ----------------------------
(***************************************************************************)
(* A model of mpv's JavaScript scripting bridge:                           *)
(*   player/mujsutf8.h   UTF-8 <-> CESU-8 transcoding around the engine    *)
(*   player/javascript.c the mpv_node marshaller and the script functions  *)
(*   player/scripting.c  the script loader                                 *)
(*                                                                         *)
(* Several specifications share the module:                                *)
(*   SpecTranscode  the transcoder applied to bounded byte strings         *)
(*   SpecMarshal    pushnode / makenode applied to bounded values          *)
(*   Spec           a script calling the bridge functions of one engine    *)
(*   SpecBuffer     the passes of the transcoder over raw memory           *)
(*   SpecAlloc      the buffers the string wrappers allocate and free      *)
(*   SpecRuntime    script threads running load_javascript                 *)
(*   SpecLoader     mp_load_script and the clients it waits for            *)
(*   SpecEvent      a script calling mp.wait_event                          *)
(*   SpecSubprocess utils.subprocess collecting the output of a child       *)
(*   SpecCommand    mp.commandv and mp.command_native                       *)
(*   SpecUnwind     the temporary buffers of the bridge calls               *)
(*   SpecReaddir    utils.readdir and its directory handle                  *)
(***************************************************************************)
EXTENDS Integers, Sequences, FiniteSets, TLC

VARIABLES
    \* ---- SpecTranscode ----
    tsrc,               \* the byte string handed to the transcoder
    tc,                 \* the outcome of the last transcoder call
    \* ---- SpecMarshal ----
    mpc,                \* "idle" | "node" | "value" | "done" | "crashed"
    mnode,              \* the mpv_node given to pushnode
    mstack,             \* the engine stack (a sequence of engine values)
    mres,               \* the outcome of the last marshaller call
    \* ---- Spec ----
    last_error_string,  \* the property mp.last_error_string
    call,               \* the last script function call and what it returned
    \* ---- SpecBuffer ----
    lsrc,               \* the bytes of the buffer handed to a pass
    lc,                 \* the outcome of the last pass over lsrc
    \* ---- SpecAlloc ----
    apc,                \* "idle" | "in_try" | "out_try" | "closed"
    acall,              \* the wrapper call in progress, or the last one
    aheap,              \* every buffer u8j__malloc returned, and its frees
    audata,             \* the u8j_ret userdata objects of the engine
    \* ---- SpecRuntime ----
    rt,                 \* per script thread: position, engine, result, log
    \* ---- SpecLoader ----
    lpc,                \* "load" (between calls of mp_load_script) | "wait"
    lcfg,               \* the backends of the build and the script-opts
    lclients,           \* the clients of the host, in order of creation
    lcall,              \* the last call of mp_load_script
    \* ---- SpecEvent ----
    wev,                \* the last call of mp.wait_event
    \* ---- SpecSubprocess ----
    sub,                \* the call of utils.subprocess and its output
    \* ---- SpecCommand ----
    cmd,                \* the last call of mp.commandv or mp.command_native
    \* ---- SpecUnwind ----
    tmp,                \* the temporary buffers of the bridge calls
    \* ---- SpecReaddir ----
    dirs                \* the directory handles of utils.readdir

tvars == <<tsrc, tc>>
mvars == <<mpc, mnode, mstack, mres>>
bvars == <<last_error_string, call>>
lvars == <<lsrc, lc>>
avars == <<apc, acall, aheap, audata>>
\* the variables of the specifications added after the first three
rvars == <<rt>>
svars == <<lpc, lcfg, lclients, lcall>>
yvars == <<wev, sub, cmd, tmp, dirs>>
xvars == <<lvars, avars, rvars, svars, yvars>>
vars == <<tsrc, tc, mpc, mnode, mstack, mres, last_error_string, call, xvars>>

BufferIdle == lsrc = <<>> /\ lc = <<>>
AllocIdle == apc = "idle" /\ acall = <<>> /\ aheap = <<>> /\ audata = <<>>
RuntimeIdle == rt = <<>>
LoaderIdle == lpc = "load" /\ lcfg = <<>> /\ lclients = <<>> /\ lcall = <<>>
EventIdle == wev = <<>>
SubprocessIdle == sub = <<>>
CommandIdle == cmd = <<>>
UnwindIdle == tmp = <<>>
ReaddirIdle == dirs = <<>>
\* every group of xvars but the one named is idle
IdleExcept(own) ==
    /\ (own = "buffer" \/ BufferIdle)
    /\ (own = "alloc" \/ AllocIdle)
    /\ (own = "runtime" \/ RuntimeIdle)
    /\ (own = "loader" \/ LoaderIdle)
    /\ (own = "event" \/ EventIdle)
    /\ (own = "subprocess" \/ SubprocessIdle)
    /\ (own = "command" \/ CommandIdle)
    /\ (own = "unwind" \/ UnwindIdle)
    /\ (own = "readdir" \/ ReaddirIdle)
\* every variable but those of the specification named
NotEvent ==
    <<tvars, mvars, bvars, lvars, avars, rvars, svars, sub, cmd, tmp, dirs>>
NotSubprocess ==
    <<tvars, mvars, bvars, lvars, avars, rvars, svars, wev, cmd, tmp, dirs>>
NotCommand ==
    <<tvars, mvars, bvars, lvars, avars, rvars, svars, wev, sub, tmp, dirs>>
NotUnwind ==
    <<tvars, mvars, bvars, lvars, avars, rvars, svars, wev, sub, cmd, dirs>>
NotReaddir ==
    <<tvars, mvars, bvars, lvars, avars, rvars, svars, wev, sub, cmd, tmp>>
ExtIdle == IdleExcept("")

(***************************************************************************)
(* Bounds of the model.                                                    *)
(***************************************************************************)
MaxTokens == 3      \* a byte string is made of at most this many tokens
MaxBufSiz == 8      \* the largest bufsiz handed to u8j__as_utf8/u8j__as_cesu8

\* the size of the stack buffer of every string wrapper
U8J_IMPL_STACK_BUF_SIZ == 256

\* the most stack slots script_commandv accepts
MAX_LENGTH_COMMANDV == 50

MaxNodeSize == 4    \* a generated Node has at most this many nodes
MaxHalf == 4        \* the small numbers are the halves -MaxHalf/2 .. MaxHalf/2

(***************************************************************************)
(* C integer helpers: the bit operations of the source on unsigned chars.  *)
(***************************************************************************)
RECURSIVE BitAnd(_, _)
BitAnd(a, b) ==
    IF a = 0 \/ b = 0 THEN 0
    ELSE (a % 2) * (b % 2) + 2 * BitAnd(a \div 2, b \div 2)

RECURSIVE BitOr(_, _)
BitOr(a, b) ==
    IF a = 0 THEN b
    ELSE IF b = 0 THEN a
    ELSE (IF a % 2 = 1 \/ b % 2 = 1 THEN 1 ELSE 0) + 2 * BitOr(a \div 2, b \div 2)

RECURSIVE Pow2(_)
Pow2(n) == IF n = 0 THEN 1 ELSE 2 * Pow2(n - 1)

Shl(a, n) == a * Pow2(n)
Shr(a, n) == a \div Pow2(n)
\* a store into an unsigned char keeps the low 8 bits
U8(a) == a % 256

(***************************************************************************)
(* Memory: a C string is the sequence of its bytes; the byte at C index    *)
(* Len(s) is the terminating NUL.  A read past the terminator is outside   *)
(* the object and yields OOB, which is no byte.                            *)
(***************************************************************************)
OOB == 255 + 1
At(s, i) ==
    IF i < Len(s) THEN s[i + 1]
    ELSE IF i = Len(s) THEN 0
    ELSE OOB

\* the NULL pointer, where a function of the source accepts one
NULL == <<OOB>>

(***************************************************************************)
(* CESU-8 and UTF-8 test and conversion functions (mujsutf8.h).            *)
(* In TLC a conjunction is evaluated left to right and stops at the first  *)
(* false conjunct, as && does in C.                                        *)
(***************************************************************************)
u8j__is_cesu8_smp(s, i) ==
    /\ At(s, i) = 237                             \* s[0] == 0xed
    /\ BitAnd(At(s, i + 1), 240) = 160            \* (s[1] & 0xf0) == 0xa0
    /\ BitAnd(At(s, i + 2), 192) = 128            \* (s[2] & 0xc0) == 0x80
    /\ At(s, i + 3) = 237                         \* s[3] == 0xed
    /\ BitAnd(At(s, i + 4), 240) = 176            \* (s[4] & 0xf0) == 0xb0
    /\ BitAnd(At(s, i + 5), 192) = 128            \* (s[5] & 0xc0) == 0x80

\* mutant: top5 is taken without the + 1
u8j_utf8_of_pair_nobias(s, i) ==
    LET top5 == U8(BitAnd(At(s, i + 1), 15))
    IN  << U8(BitOr(240, Shr(top5, 2))),
           U8(BitOr(BitOr(128, Shl(BitAnd(top5, 3), 4)),
                    Shr(BitAnd(At(s, i + 2), 63), 2))),
           U8(BitOr(BitOr(128, Shl(BitAnd(At(s, i + 2), 3), 4)),
                    BitAnd(At(s, i + 4), 15))),
           At(s, i + 5) >>

\* the four bytes u8j_write_utf8 stores for the CESU-8 pair at s[i..i+5]
u8j_utf8_of_pair(s, i) ==
    LET top5 == U8(BitAnd(At(s, i + 1), 15) + 1)
    IN  << U8(BitOr(240, Shr(top5, 2))),
           U8(BitOr(BitOr(128, Shl(BitAnd(top5, 3), 4)),
                    Shr(BitAnd(At(s, i + 2), 63), 2))),
           U8(BitOr(BitOr(128, Shl(BitAnd(At(s, i + 2), 3), 4)),
                    BitAnd(At(s, i + 4), 15))),
           At(s, i + 5) >>

\* the loop of u8j_write_utf8: s is the read index, dst the bytes stored so
\* far, smp the number of pairs rewritten
RECURSIVE u8j_write_utf8_loop(_, _, _, _)
u8j_write_utf8_loop(cesu8_src, s, dst, smp) ==
    \* while (*s); a read outside the object also ends the model's loop
    IF At(cesu8_src, s) = 0 \/ At(cesu8_src, s) = OOB
    THEN [dst |-> dst, smp |-> smp, s |-> s]
    ELSE IF u8j__is_cesu8_smp(cesu8_src, s)
    THEN u8j_write_utf8_loop(cesu8_src, s + 6,
                             dst \o u8j_utf8_of_pair(cesu8_src, s), smp + 1)
    ELSE u8j_write_utf8_loop(cesu8_src, s + 1,
                             Append(dst, At(cesu8_src, s)), smp)

\* [dst: every byte stored, the final NUL included; smp: pairs rewritten]
u8j_write_utf8(cesu8_src) ==
    LET r == u8j_write_utf8_loop(cesu8_src, 0, <<>>, 0)
    IN  [dst |-> Append(r.dst, 0), smp |-> r.smp]

RECURSIVE u8j_utf8_len_loop(_, _, _)
u8j_utf8_len_loop(cesu8, i, smp_count) ==
    IF At(cesu8, i) = 0 THEN [i |-> i, smp_count |-> smp_count]
    ELSE u8j_utf8_len_loop(cesu8, i + 1,
            IF u8j__is_cesu8_smp(cesu8, i) THEN smp_count + 1 ELSE smp_count)

u8j_utf8_len(cesu8) ==
    IF cesu8 = NULL THEN 0
    ELSE LET r == u8j_utf8_len_loop(cesu8, 0, 0)
         IN  IF r.smp_count # 0 THEN r.i - r.smp_count * 2 ELSE 0

u8j__is_utf8_smp(s, i) ==
    /\ BitAnd(At(s, i), 248) = 240                \* (s[0] & 0xf8) == 0xf0
    /\ BitAnd(At(s, i + 1), 192) = 128            \* (s[1] & 0xc0) == 0x80
    /\ BitAnd(At(s, i + 2), 192) = 128
    /\ BitAnd(At(s, i + 3), 192) = 128
    \* !(s[0] & 0x04) != !((s[0] & 0x03) | (s[1] & 0x30)): top5 in 0x01..0x10
    /\ (BitAnd(At(s, i), 4) = 0)
         # (BitOr(BitAnd(At(s, i), 3), BitAnd(At(s, i + 1), 48)) = 0)

\* the six bytes u8j_write_cesu8 stores for the UTF-8 sequence at s[i..i+3]
u8j_pair_of_utf8(s, i) ==
    LET top5 == U8(BitOr(Shl(BitAnd(At(s, i), 7), 2),
                         Shr(BitAnd(At(s, i + 1), 48), 4)))
    IN  << 237,
           U8(BitOr(160, top5 - 1)),
           U8(BitOr(BitOr(128, Shl(BitAnd(At(s, i + 1), 15), 2)),
                    Shr(BitAnd(At(s, i + 2), 48), 4))),
           237,
           U8(BitOr(176, BitAnd(At(s, i + 2), 15))),
           At(s, i + 3) >>

\* the first loop of u8j_write_cesu8: while (dst <= fin - 6)
RECURSIVE u8j_write_cesu8_loop(_, _, _, _, _)
u8j_write_cesu8_loop(utf8_src, s, dst, fin, smp) ==
    IF ~(Len(dst) <= fin - 6)
    THEN [dst |-> dst, smp |-> smp, s |-> s]
    ELSE IF u8j__is_utf8_smp(utf8_src, s)
    THEN u8j_write_cesu8_loop(utf8_src, s + 4,
                              dst \o u8j_pair_of_utf8(utf8_src, s), fin, smp + 1)
    ELSE u8j_write_cesu8_loop(utf8_src, s + 1,
                              Append(dst, At(utf8_src, s)), fin, smp)

\* the second loop of u8j_write_cesu8: while (dst < fin) *dst++ = *s++
RECURSIVE u8j_write_cesu8_tail(_, _, _, _)
u8j_write_cesu8_tail(utf8_src, s, dst, fin) ==
    IF ~(Len(dst) < fin) THEN [dst |-> dst, s |-> s]
    ELSE u8j_write_cesu8_tail(utf8_src, s + 1, Append(dst, At(utf8_src, s)), fin)

\* [dst: every byte stored, the final NUL included; smp: sequences rewritten;
\*  s: the read index at the end]
u8j_write_cesu8(utf8_src, cesu8_len) ==
    LET a == u8j_write_cesu8_loop(utf8_src, 0, <<>>, cesu8_len, 0)
        b == u8j_write_cesu8_tail(utf8_src, a.s, a.dst, cesu8_len)
    IN  [dst |-> Append(b.dst, 0), smp |-> a.smp, s |-> b.s]

RECURSIVE u8j_cesu8_len_loop(_, _, _)
u8j_cesu8_len_loop(utf8, i, smp_count) ==
    IF At(utf8, i) = 0 THEN [i |-> i, smp_count |-> smp_count]
    ELSE u8j_cesu8_len_loop(utf8, i + 1,
            IF u8j__is_utf8_smp(utf8, i) THEN smp_count + 1 ELSE smp_count)

\* mutant: one byte, not two, is added per sequence
u8j_cesu8_len_plus1(utf8) ==
    IF utf8 = NULL THEN 0
    ELSE LET r == u8j_cesu8_len_loop(utf8, 0, 0)
         IN  IF r.smp_count # 0 THEN r.i + r.smp_count ELSE 0

u8j_cesu8_len(utf8) ==
    IF utf8 = NULL THEN 0
    ELSE LET r == u8j_cesu8_len_loop(utf8, 0, 0)
         IN  IF r.smp_count # 0 THEN r.i + r.smp_count * 2 ELSE 0

(***************************************************************************)
(* u8j__malloc: malloc may fail, and then u8j__malloc throws "U8J OOM".    *)
(* ok is the allocator's answer.                                           *)
(***************************************************************************)
u8j__malloc(siz, ok) ==
    IF ok THEN [thrown |-> FALSE, siz |-> siz]
    ELSE [thrown |-> TRUE, siz |-> 0]

(***************************************************************************)
(* u8j__as_utf8 / u8j__as_cesu8.  The result records                       *)
(*   ret    where the returned pointer points: "src" (the argument         *)
(*          itself), "buf" (the caller's buffer), "mem" (the allocation),  *)
(*          or "throw" (no return: the engine exception was thrown)        *)
(*   mem    *mem at the end: FALSE for NULL, TRUE for the allocation       *)
(*   n      the converted length the counting pass returned                *)
(*   alloc  the size asked from u8j__malloc (0: u8j__malloc not called)    *)
(*   dst    every byte the write pass stored (<<>>: no write pass)         *)
(*   smp    the number of sequences the write pass rewrote                 *)
(*   str    the string at the returned pointer                             *)
(***************************************************************************)
NoConv(src) ==
    [ret |-> "src", mem |-> FALSE, n |-> 0, alloc |-> 0, dst |-> <<>>,
     smp |-> 0, str |-> src]

Thrown(n) ==
    [ret |-> "throw", mem |-> FALSE, n |-> n, alloc |-> n + 1, dst |-> <<>>,
     smp |-> 0, str |-> <<>>]

Converted(where, n, w) ==
    [ret |-> where, mem |-> (where = "mem"), n |-> n,
     alloc |-> IF where = "mem" THEN n + 1 ELSE 0,
     dst |-> w.dst, smp |-> w.smp, str |-> SubSeq(w.dst, 1, Len(w.dst) - 1)]

\* mutant: the buffer is used when n = bufsiz too
u8j__as_utf8_le(cesu8, bufsiz, ok) ==
    LET n == u8j_utf8_len(cesu8)
    IN  IF n = 0 THEN NoConv(cesu8)
        ELSE IF n <= bufsiz THEN Converted("buf", n, u8j_write_utf8(cesu8))
        ELSE IF u8j__malloc(n + 1, ok).thrown THEN Thrown(n)
        ELSE Converted("mem", n, u8j_write_utf8(cesu8))

u8j__as_utf8(cesu8, bufsiz, ok) ==
    LET n == u8j_utf8_len(cesu8)
    IN  IF n = 0 THEN NoConv(cesu8)
        ELSE IF n < bufsiz THEN Converted("buf", n, u8j_write_utf8(cesu8))
        ELSE IF u8j__malloc(n + 1, ok).thrown THEN Thrown(n)
        ELSE Converted("mem", n, u8j_write_utf8(cesu8))

u8j__as_cesu8(utf8, bufsiz, ok) ==
    LET n == u8j_cesu8_len(utf8)
    IN  IF n = 0 THEN NoConv(utf8)
        ELSE IF n < bufsiz THEN Converted("buf", n, u8j_write_cesu8(utf8, n))
        ELSE IF u8j__malloc(n + 1, ok).thrown THEN Thrown(n)
        ELSE Converted("mem", n, u8j_write_cesu8(utf8, n))

(***************************************************************************)
(* The byte strings of the model: concatenations of at most MaxTokens      *)
(* tokens.  The tokens are whole sequences of both encodings and the       *)
(* pieces that make truncated, overlong and out-of-range ones.             *)
(***************************************************************************)
Tokens ==
    { <<65>>,                       \* "A"
      <<226, 130, 172>>,            \* U+20AC, three bytes in both encodings
      <<240, 144, 128, 128>>,       \* U+10000 in UTF-8
      <<244, 143, 191, 191>>,       \* U+10FFFF in UTF-8
      <<244, 144, 128, 128>>,       \* above U+10FFFF: top5 = 0x11
      <<237, 160, 128>>,            \* high surrogate D800 (first half of a pair)
      <<237, 176, 128>>,            \* low surrogate DC00 (second half of a pair)
      <<240>> }                     \* a lone lead byte

RECURSIVE StringsOf(_)
StringsOf(k) ==
    IF k = 0 THEN { <<>> }
    ELSE LET shorter == StringsOf(k - 1)
         IN  shorter \cup { t \o r : t \in Tokens, r \in shorter }

Strings == StringsOf(MaxTokens)

BufSizes == 1..MaxBufSiz

(***************************************************************************)
(* SpecTranscode: a string is chosen, then the transcoder is applied.      *)
(*   tc.op   "none" | "as_cesu8" | "as_utf8" | "back" (as_utf8 applied to  *)
(*           the string a call of as_cesu8 returned)                       *)
(***************************************************************************)
Idle == [op |-> "none", src |-> <<>>, bufsiz |-> 0, r |-> NoConv(<<>>)]

TranscodeIdle == tsrc = <<>> /\ tc = Idle
MarshalIdle == mpc = "idle" /\ mnode = <<>> /\ mstack = <<>> /\ mres = <<>>
BridgeIdle == last_error_string = "" /\ call = <<>>

InitTranscode ==
    /\ tsrc \in Strings \cup {NULL}
    /\ tc = Idle
    /\ MarshalIdle
    /\ BridgeIdle
    /\ ExtIdle

\* u8j__as_cesu8(J, tsrc, buf, bufsiz, &mem)
AsCesu8 ==
    /\ tc.op = "none"
    /\ \E bufsiz \in BufSizes, ok \in BOOLEAN :
          tc' = [op |-> "as_cesu8", src |-> tsrc, bufsiz |-> bufsiz,
                 r |-> u8j__as_cesu8(tsrc, bufsiz, ok)]
    /\ UNCHANGED <<tsrc, mvars, bvars, xvars>>

\* u8j__as_utf8(J, tsrc, buf, bufsiz, &mem)
AsUtf8 ==
    /\ tc.op = "none"
    /\ \E bufsiz \in BufSizes, ok \in BOOLEAN :
          tc' = [op |-> "as_utf8", src |-> tsrc, bufsiz |-> bufsiz,
                 r |-> u8j__as_utf8(tsrc, bufsiz, ok)]
    /\ UNCHANGED <<tsrc, mvars, bvars, xvars>>

\* u8j__as_utf8 of the CESU-8 string the engine was given by AsCesu8; every
\* caller's buffer has the same size (U8J_IMPL_STACK_BUF_SIZ)
BackToUtf8 ==
    /\ tc.op = "as_cesu8"
    /\ tc.r.ret # "throw"
    /\ \E ok \in BOOLEAN :
          tc' = [op |-> "back", src |-> tc.r.str, bufsiz |-> tc.bufsiz,
                 r |-> u8j__as_utf8(tc.r.str, tc.bufsiz, ok)]
    /\ UNCHANGED <<tsrc, mvars, bvars, xvars>>

NextTranscode == AsCesu8 \/ AsUtf8 \/ BackToUtf8

SpecTranscode == InitTranscode /\ [][NextTranscode]_vars

(***************************************************************************)
(* What the transcoder claims speak of, stated on the bytes alone.         *)
(***************************************************************************)
InRange(b, lo, hi) == lo <= b /\ b <= hi
IsCont(b) == InRange(b, 128, 191)

\* a well-formed four byte UTF-8 sequence (U+10000..U+10FFFF) starts at i
Utf8SmpAt(s, i) ==
    /\ i + 3 < Len(s)
    /\ \/ s[i + 1] = 240 /\ InRange(s[i + 2], 144, 191)
       \/ InRange(s[i + 1], 241, 243) /\ IsCont(s[i + 2])
       \/ s[i + 1] = 244 /\ InRange(s[i + 2], 128, 143)
    /\ IsCont(s[i + 3])
    /\ IsCont(s[i + 4])

\* a CESU-8 surrogate pair (high surrogate, low surrogate) starts at i
Cesu8PairAt(s, i) ==
    /\ i + 5 < Len(s)
    /\ s[i + 1] = 237 /\ InRange(s[i + 2], 160, 175) /\ IsCont(s[i + 3])
    /\ s[i + 4] = 237 /\ InRange(s[i + 5], 176, 191) /\ IsCont(s[i + 6])

IsBytes(s) == \A j \in 1..Len(s) : InRange(s[j], 1, 255)
Utf8SmpCount(s) ==
    IF IsBytes(s) THEN Cardinality({i \in 0..(Len(s) - 1) : Utf8SmpAt(s, i)}) ELSE 0
Cesu8PairCount(s) ==
    IF IsBytes(s) THEN Cardinality({i \in 0..(Len(s) - 1) : Cesu8PairAt(s, i)}) ELSE 0

\* well-formed UTF-8 (RFC 3629): no surrogates, no overlong forms, at most U+10FFFF
RECURSIVE WellFormedFrom(_, _)
WellFormedFrom(s, i) ==
    IF i >= Len(s) THEN i = Len(s)
    ELSE LET b == At(s, i)  c1 == At(s, i + 1)  c2 == At(s, i + 2)  c3 == At(s, i + 3)
         IN  IF InRange(b, 1, 127) THEN WellFormedFrom(s, i + 1)
             ELSE IF InRange(b, 194, 223)
                  THEN IsCont(c1) /\ WellFormedFrom(s, i + 2)
             ELSE IF InRange(b, 224, 239)
                  THEN /\ CASE b = 224 -> InRange(c1, 160, 191)
                            [] b = 237 -> InRange(c1, 128, 159)
                            [] OTHER   -> IsCont(c1)
                       /\ IsCont(c2)
                       /\ WellFormedFrom(s, i + 3)
             ELSE IF InRange(b, 240, 244)
                  THEN /\ CASE b = 240 -> InRange(c1, 144, 191)
                            [] b = 244 -> InRange(c1, 128, 143)
                            [] OTHER   -> IsCont(c1)
                       /\ IsCont(c2) /\ IsCont(c3)
                       /\ WellFormedFrom(s, i + 4)
             ELSE FALSE
IsUtf8(s) == IsBytes(s) /\ WellFormedFrom(s, 0)

\* dst is len bytes, none of them NUL, followed by one NUL
IsTerminated(dst, len) ==
    /\ Len(dst) = len + 1
    /\ dst[len + 1] = 0
    /\ \A j \in 1..len : InRange(dst[j], 1, 255)

ToCesu8 == tc.op = "as_cesu8"
ToUtf8 == tc.op \in {"as_utf8", "back"}

(***************************************************************************)
(* C8: for every NUL-terminated string with k >= 1 supplementary-plane     *)
(* sequences, u8j_cesu8_len returns the source length + 2k and             *)
(* u8j_utf8_len the source length - 2k; the write pass stores exactly that *)
(* many bytes and then one NUL, and rewrites exactly k sequences.          *)
(***************************************************************************)
C8_LengthCorrect ==
    /\ (ToCesu8 /\ Utf8SmpCount(tc.src) >= 1) =>
          /\ tc.r.n = Len(tc.src) + 2 * Utf8SmpCount(tc.src)
          /\ tc.r.ret # "throw" =>
                /\ IsTerminated(tc.r.dst, tc.r.n)
                /\ tc.r.smp = Utf8SmpCount(tc.src)
    /\ (ToUtf8 /\ Cesu8PairCount(tc.src) >= 1) =>
          /\ tc.r.n = Len(tc.src) - 2 * Cesu8PairCount(tc.src)
          /\ tc.r.ret # "throw" =>
                /\ IsTerminated(tc.r.dst, tc.r.n)
                /\ tc.r.smp = Cesu8PairCount(tc.src)

\* a string with two supplementary-plane characters and something else was
\* encoded into an allocation
C8_Witness ==
    /\ ToCesu8
    /\ Utf8SmpCount(tc.src) = 2
    /\ Len(tc.src) > 8
    /\ tc.r.smp = 2
    /\ tc.r.ret = "mem"

(***************************************************************************)
(* C9: for every well-formed UTF-8 string s, encoding s for the engine     *)
(* (u8j_cesu8_len + u8j_write_cesu8) and decoding the result               *)
(* (u8j_utf8_len + u8j_write_utf8) gives the bytes of s; a string that     *)
(* needs no conversion is passed through as it is in either direction.     *)
(***************************************************************************)
C9_RoundTrip ==
    /\ (tc.op = "back" /\ IsUtf8(tsrc) /\ tc.r.ret # "throw") => tc.r.str = tsrc
    /\ (ToCesu8 /\ Utf8SmpCount(tc.src) = 0) => tc.r.str = tc.src /\ tc.r.dst = <<>>
    /\ (ToUtf8 /\ Cesu8PairCount(tc.src) = 0) => tc.r.str = tc.src /\ tc.r.dst = <<>>

\* a well-formed string with a supplementary-plane character went to CESU-8,
\* which differs from it, and came back
C9_Witness ==
    /\ tc.op = "back"
    /\ IsUtf8(tsrc)
    /\ Utf8SmpCount(tsrc) >= 1
    /\ tc.src # tsrc
    /\ tc.r.ret = "buf"
    /\ tc.r.str = tsrc

(***************************************************************************)
(* C10: u8j__as_utf8 and u8j__as_cesu8 return the source pointer, without  *)
(* allocating, when the string has no special sequence; else the caller's  *)
(* buffer when the converted length n < bufsiz (the n + 1 bytes stored fit *)
(* the buffer), else an allocation of n + 1 bytes.  *mem is non-NULL       *)
(* exactly when the allocation is returned; a failed allocation throws,    *)
(* with *mem NULL, and nothing is returned.                                *)
(***************************************************************************)
ExpectedLen ==
    IF ToCesu8 THEN Len(tc.src) + 2 * Utf8SmpCount(tc.src)
    ELSE Len(tc.src) - 2 * Cesu8PairCount(tc.src)
SpecialCount ==
    IF ToCesu8 THEN Utf8SmpCount(tc.src) ELSE Cesu8PairCount(tc.src)

C10_Storage ==
    tc.op # "none" =>
        /\ SpecialCount = 0 =>
              tc.r.ret = "src" /\ tc.r.alloc = 0 /\ tc.r.str = tc.src
        /\ (SpecialCount > 0 /\ ExpectedLen < tc.bufsiz) =>
              /\ tc.r.ret = "buf" /\ tc.r.alloc = 0
              /\ Len(tc.r.dst) = ExpectedLen + 1
              /\ Len(tc.r.dst) <= tc.bufsiz
        /\ (SpecialCount > 0 /\ ExpectedLen >= tc.bufsiz) =>
              /\ tc.r.ret \in {"mem", "throw"}
              /\ tc.r.alloc = ExpectedLen + 1
              /\ tc.r.ret = "mem" => Len(tc.r.dst) = tc.r.alloc
        /\ tc.r.mem <=> tc.r.ret = "mem"

\* the converted length is exactly the buffer size: the allocation is used
C10_Witness ==
    /\ tc.op = "as_utf8"
    /\ SpecialCount > 0
    /\ ExpectedLen = tc.bufsiz
    /\ tc.r.ret = "mem"
    /\ tc.r.mem

(***************************************************************************)
(* Numbers.  An int64_t and a double are kept symbolically, so that the    *)
(* corners of the conversions between them are in the model:               *)
(*   int64   [c |-> "small", i |-> n]    the value n                       *)
(*           [c |-> "big",   i |-> k]    2^53 + k                          *)
(*           [c |-> "max",   i |-> 0]    INT64_MAX = 2^63 - 1              *)
(*           [c |-> "min",   i |-> 0]    INT64_MIN = -2^63                 *)
(*   double  [c |-> "fin",   h |-> n]    the value n/2                     *)
(*           [c |-> "big",   h |-> k]    2^53 + k (k = -1, 0 or even)      *)
(*           [c |-> "p63" | "n63" | "nan" | "inf" | "ninf", h |-> 0]       *)
(*                                       2^63, -2^63, NaN, +Inf, -Inf      *)
(***************************************************************************)
I64(n) == [c |-> "small", i |-> n]
I64Big(k) == [c |-> "big", i |-> k]
INT64_MAX == [c |-> "max", i |-> 0]
INT64_MIN == [c |-> "min", i |-> 0]

Dbl(h) == [c |-> "fin", h |-> h]
DblBig(k) == [c |-> "big", h |-> k]
DblOf(c) == [c |-> c, h |-> 0]

\* (double)v for an int64_t v: exact up to 2^53, else round to nearest even
Int64ToDouble(v) ==
    CASE v.c = "small" -> Dbl(2 * v.i)
      [] v.c = "big"   -> IF v.i % 2 = 0 \/ v.i < 0 THEN DblBig(v.i)
                          ELSE IF v.i % 4 = 1 THEN DblBig(v.i - 1)
                          ELSE DblBig(v.i + 1)
      [] v.c = "max"   -> DblOf("p63")
      [] v.c = "min"   -> DblOf("n63")

\* The builds differ in (int64_t)d when d is NaN, infinite or out of range
\* (the C conversion is undefined there): the conversion instruction yields
\* the "indefinite" value INT64_MIN, or it saturates and turns NaN into 0.
FpCasts == {"indefinite", "saturate"}

\* (int64_t)d for a double d: truncation towards zero
DoubleToInt64(d, fpcast) ==
    CASE d.c = "fin" -> IF d.h >= 0 THEN I64(d.h \div 2)
                        ELSE I64(-((-d.h) \div 2))
      [] d.c = "big" -> I64Big(d.h)
      [] d.c = "n63" -> INT64_MIN
      [] OTHER       ->
            IF fpcast = "indefinite" THEN INT64_MIN
            ELSE CASE d.c \in {"p63", "inf"} -> INT64_MAX
                   [] d.c = "ninf"           -> INT64_MIN
                   [] OTHER                  -> I64(0)

\* d == e for doubles
DoubleEq(d, e) == d.c # "nan" /\ e.c # "nan" /\ d = e

is_int(d, fpcast) == DoubleEq(d, Int64ToDouble(DoubleToInt64(d, fpcast)))

(***************************************************************************)
(* The engine (MuJS, or Duktape behind the same js_* names).  A value is a *)
(* record with its type in t; a string holds the engine's bytes (CESU-8);  *)
(* an object holds its own enumerable properties in creation order.        *)
(* A function is an object too: js_isobject is true of it.                 *)
(***************************************************************************)
JsUndefined == [t |-> "undefined"]
JsNull == [t |-> "null"]
JsBool(b) == [t |-> "boolean", b |-> b]
JsNum(d) == [t |-> "number", d |-> d]
JsStr(s) == [t |-> "string", s |-> s]
JsArray(elems) == [t |-> "array", elems |-> elems]
JsObject(props) == [t |-> "object", props |-> props]
JsFunction(props) == [t |-> "function", props |-> props]
JsIterator(keys) == [t |-> "iterator", keys |-> keys]
JsUtf8Ret(s) == [t |-> "userdata", utf8 |-> s]

js_isundefined(v) == v.t = "undefined"
js_isnull(v) == v.t = "null"
js_isboolean(v) == v.t = "boolean"
js_isnumber(v) == v.t = "number"
js_isstring(v) == v.t = "string"
js_isarray(v) == v.t = "array"
js_isobject(v) == v.t \in {"array", "object", "function", "iterator", "userdata"}

\* The stack of the running C function: index 0 is the first slot, a
\* negative index counts from the top; a slot that does not exist reads as
\* undefined.
Pos(st, idx) == IF idx >= 0 THEN idx + 1 ELSE Len(st) + idx + 1
Slot(st, idx) ==
    IF Pos(st, idx) \in 1..Len(st) THEN st[Pos(st, idx)] ELSE JsUndefined
js_gettop(st) == Len(st)
js_push(st, v) == Append(st, v)
js_pop(st, n) == SubSeq(st, 1, Len(st) - n)

\* the bytes of a short ASCII C string literal
Ascii(c) ==
    CASE c = "a" -> <<97>>
      [] c = "b" -> <<98>>
      [] c = "x" -> <<120>>
      [] c = "[UNKNOWN_VALUE_FORMAT]" ->
           <<91, 85, 78, 75, 78, 79, 87, 78, 95, 86, 65, 76, 85, 69, 95,
             70, 79, 82, 77, 65, 84, 93>>

\* u_js_pushstring: the UTF-8 string goes in as CESU-8
js_pushstring(st, v) ==
    LET cesu8_len == u8j_cesu8_len(v)
    IN  IF cesu8_len = 0 THEN js_push(st, JsStr(v))
        ELSE js_push(st, JsStr(LET w == u8j_write_cesu8(v, cesu8_len)
                                IN  SubSeq(w.dst, 1, cesu8_len)))

\* u_js_tostring of a string value: the engine's bytes come out as UTF-8;
\* when they had to be converted, the converted copy is owned by a userdata
\* that replaces the value in its slot.  [str, st]
js_tostring(st, idx) ==
    LET str == Slot(st, idx).s
        utf8_len == u8j_utf8_len(str)
    IN  IF utf8_len = 0 THEN [str |-> str, st |-> st]
        ELSE LET w == u8j_write_utf8(str)
                 utf8 == SubSeq(w.dst, 1, Len(w.dst) - 1)
             IN  [str |-> utf8,
                  st |-> [st EXCEPT ![Pos(st, idx)] = JsUtf8Ret(utf8)]]

\* the name a property is stored and looked up under (U8J__IN_NON)
PropName(name) == u8j__as_cesu8(name, U8J_IMPL_STACK_BUF_SIZ, TRUE).str

\* mutant: the top value is put in front of the elements
js_setindex_front(st, idx, n) ==
    LET v == st[Len(st)]
        p == Pos(st, idx)
    IN  js_pop([st EXCEPT ![p] = JsArray(<<v>> \o st[p].elems)], 1)

\* js_setindex(J, idx, n): the top value becomes element n, and is popped
js_setindex(st, idx, n) ==
    LET v == st[Len(st)]
        p == Pos(st, idx)
        a == st[p].elems
        holes == [i \in 1..(n - Len(a)) |-> JsUndefined]
        elems == IF n < Len(a) THEN [a EXCEPT ![n + 1] = v]
                 ELSE (a \o holes) \o <<v>>
    IN  js_pop([st EXCEPT ![p] = JsArray(elems)], 1)

HasProp(props, k) == \E i \in 1..Len(props) : props[i].k = k
PropIndex(props, k) == CHOOSE i \in 1..Len(props) : props[i].k = k

\* js_setproperty(J, idx, name): the top value is bound to name, and popped
js_setproperty(st, idx, name) ==
    LET v == st[Len(st)]
        p == Pos(st, idx)
        o == st[p]
        k == PropName(name)
        props == IF HasProp(o.props, k)
                 THEN [o.props EXCEPT ![PropIndex(o.props, k)].v = v]
                 ELSE Append(o.props, [k |-> k, v |-> v])
    IN  js_pop([st EXCEPT ![p] = [o EXCEPT !.props = props]], 1)

js_getlength(st, idx) == Len(Slot(st, idx).elems)

\* js_getindex(J, idx, n): pushes element n
js_getindex(st, idx, n) ==
    LET a == Slot(st, idx).elems
    IN  js_push(st, IF n < Len(a) THEN a[n + 1] ELSE JsUndefined)

\* js_getproperty(J, idx, name): pushes the property, undefined if absent
js_getproperty(st, idx, name) ==
    LET o == Slot(st, idx)
        k == PropName(name)
    IN  js_push(st, IF HasProp(o.props, k)
                    THEN o.props[PropIndex(o.props, k)].v ELSE JsUndefined)

(***************************************************************************)
(* mpv_node.  format is the tag; an array or map holds the values (and the *)
(* keys) of its list, list->num being their number.  A Node whose list     *)
(* pointer is NULL has the field list instead.                             *)
(***************************************************************************)
NodeNone == [format |-> "NONE"]
NodeFlag(b) == [format |-> "FLAG", flag |-> b]
NodeInt64(v) == [format |-> "INT64", int64 |-> v]
NodeDouble(d) == [format |-> "DOUBLE", double_ |-> d]
NodeString(s) == [format |-> "STRING", string |-> s]
NodeArray(values) == [format |-> "NODE_ARRAY", values |-> values]
NodeMap(keys, values) ==
    [format |-> "NODE_MAP", keys |-> keys, values |-> values]
NodeNullList(format) == [format |-> format, list |-> "NULL"]
NodeOther(format) == [format |-> format]

NodeFormats ==
    {"NONE", "FLAG", "INT64", "DOUBLE", "STRING", "NODE_ARRAY", "NODE_MAP"}

\* What reading through the NULL list pointer does: the process is killed
\* by the fault, or the read goes through and finds no elements.
NullDerefs == {"segv", "reads"}

(***************************************************************************)
(* pushnode.  [st, crashed]: the stack at the end, and whether the process *)
(* was killed on the way.                                                  *)
(***************************************************************************)
RECURSIVE pushnode(_, _, _)
RECURSIVE pushnode_list(_, _, _, _)

\* for (int n = 0; n < node->u.list->num; n++) { pushnode; js_set... }
pushnode_list(st, node, n, nullderef) ==
    IF \lnot (n < Len(node.values)) THEN [st |-> st, crashed |-> FALSE]
    ELSE LET r == pushnode(st, node.values[n + 1], nullderef)
         IN  IF r.crashed THEN r
             ELSE pushnode_list(
                     IF node.format = "NODE_ARRAY"
                     THEN js_setindex(r.st, -2, n)
                     ELSE js_setproperty(r.st, -2, node.keys[n + 1]),
                     node, n + 1, nullderef)

\* mutant: the default case pushes null
pushnode_default_null(st) == js_push(st, JsNull)

pushnode_default(st) == js_pushstring(st, Ascii("[UNKNOWN_VALUE_FORMAT]"))

pushnode(st, node, nullderef) ==
    CASE node.format = "NONE" ->
           [st |-> js_push(st, JsNull), crashed |-> FALSE]
      [] node.format = "STRING" ->
           [st |-> js_pushstring(st, node.string), crashed |-> FALSE]
      [] node.format = "INT64" ->
           [st |-> js_push(st, JsNum(Int64ToDouble(node.int64))),
            crashed |-> FALSE]
      [] node.format = "DOUBLE" ->
           [st |-> js_push(st, JsNum(node.double_)), crashed |-> FALSE]
      [] node.format = "FLAG" ->
           [st |-> js_push(st, JsBool(node.flag)), crashed |-> FALSE]
      [] node.format \in {"NODE_ARRAY", "NODE_MAP"} ->
           LET new == IF node.format = "NODE_ARRAY" THEN JsArray(<<>>)
                      ELSE JsObject(<<>>)
           IN  IF "list" \in DOMAIN node
               THEN [st |-> js_push(st, new), crashed |-> nullderef = "segv"]
               ELSE pushnode_list(js_push(st, new), node, 0, nullderef)
      [] OTHER ->
           [st |-> pushnode_default(st), crashed |-> FALSE]

(***************************************************************************)
(* The order in which js_pushiterator enumerates the own properties of an  *)
(* object is the engine's: creation order, or sorted by name.              *)
(***************************************************************************)
EnumOrders == {"insertion", "sorted"}

RECURSIVE BytesLess(_, _)
BytesLess(a, b) ==
    IF a = <<>> THEN b # <<>>
    ELSE IF b = <<>> THEN FALSE
    ELSE IF Head(a) # Head(b) THEN Head(a) < Head(b)
    ELSE BytesLess(Tail(a), Tail(b))

RECURSIVE SortedKeys(_)
SortedKeys(ks) ==
    IF ks = {} THEN <<>>
    ELSE LET least == CHOOSE k \in ks : \A o \in ks \ {k} : BytesLess(k, o)
         IN  <<least>> \o SortedKeys(ks \ {least})

EnumKeys(props, order) ==
    IF order = "insertion" THEN [i \in 1..Len(props) |-> props[i].k]
    ELSE SortedKeys({props[i].k : i \in 1..Len(props)})

\* js_pushiterator(J, idx, 1)
js_pushiterator(st, idx, order) ==
    js_push(st, JsIterator(EnumKeys(Slot(st, idx).props, order)))

\* pushes the next key of the iterator at idx and is true, or pushes nothing
\* and is false when the iterator is exhausted.  [more, st]
mud_push_next_key(st, idx) ==
    LET it == Slot(st, idx)
    IN  IF it.keys = <<>> THEN [more |-> FALSE, st |-> st]
        ELSE [more |-> TRUE,
              st |-> js_push([st EXCEPT ![Pos(st, idx)] =
                                  JsIterator(Tail(it.keys))],
                             JsStr(Head(it.keys)))]

\* while(mud_push_next_key(J, iter_idx)) length++;   [length, st]
RECURSIVE push_all_keys(_, _, _)
push_all_keys(st, iter_idx, length) ==
    LET r == mud_push_next_key(st, iter_idx)
    IN  IF r.more THEN push_all_keys(r.st, iter_idx, length + 1)
        ELSE [length |-> length, st |-> st]

\* for (n ...) (*keys)[n] = talloc_strdup(js_tostring(J, iter_idx + 1 + n))
RECURSIVE copy_keys(_, _, _, _, _)
copy_keys(st, iter_idx, n, length, keys) ==
    IF \lnot (n < length) THEN [keys |-> keys, st |-> st]
    ELSE LET r == js_tostring(st, iter_idx + 1 + n)
         IN  copy_keys(r.st, iter_idx, n + 1, length, Append(keys, r.str))

\* [keys, length, st]
get_object_properties(st, idx, order) ==
    LET st1 == js_pushiterator(st, idx, order)
        iter_idx == js_gettop(st1) - 1
        pushed == push_all_keys(st1, iter_idx, 0)
        copied == copy_keys(pushed.st, iter_idx, 0, pushed.length, <<>>)
    IN  [keys |-> copied.keys, length |-> pushed.length,
         st |-> js_pop(copied.st, pushed.length + 1)]

(***************************************************************************)
(* makenode.  plat holds what the build decides: the enumeration order of  *)
(* the engine and the out-of-range double to int64_t conversion.           *)
(* [node, st]: *dst and the stack at the end.                              *)
(***************************************************************************)
RECURSIVE makenode(_, _, _)
RECURSIVE makenode_array(_, _, _, _, _, _)
RECURSIVE makenode_map(_, _, _, _, _, _)

\* for (n ...) { js_getindex(J, idx, n); makenode(.., J, -1); js_pop(J, 1); }
makenode_array(st, idx, n, length, values, plat) ==
    IF \lnot (n < length)
    THEN [node |-> NodeArray(values), st |-> st]
    ELSE LET r == makenode(js_getindex(st, idx, n), -1, plat)
         IN  makenode_array(js_pop(r.st, 1), idx, n + 1, length,
                            Append(values, r.node), plat)

\* for (n ...) { js_getproperty(J, idx, keys[n]); makenode(.., J, -1); js_pop }
makenode_map(st, idx, n, keys, values, plat) ==
    IF \lnot (n < Len(keys))
    THEN [node |-> NodeMap(keys, values), st |-> st]
    ELSE LET r == makenode(js_getproperty(st, idx, keys[n + 1]), -1, plat)
         IN  makenode_map(js_pop(r.st, 1), idx, n + 1, keys,
                          Append(values, r.node), plat)

\* mutant: every number becomes a double Node
makenode_number_double(val, fpcast) == NodeDouble(val)

makenode_number(val, fpcast) ==
    IF is_int(val, fpcast) THEN NodeInt64(DoubleToInt64(val, fpcast))
    ELSE NodeDouble(val)

makenode(st, idx, plat) ==
    LET v == Slot(st, idx)
    IN  IF js_isundefined(v) \/ js_isnull(v)
        THEN [node |-> NodeNone, st |-> st]
        ELSE IF js_isboolean(v)
        THEN [node |-> NodeFlag(v.b), st |-> st]
        ELSE IF js_isnumber(v)
        THEN [node |-> makenode_number(v.d, plat.fpcast), st |-> st]
        ELSE IF js_isstring(v)
        THEN LET r == js_tostring(st, idx)
             IN  [node |-> NodeString(r.str), st |-> r.st]
        ELSE IF js_isarray(v)
        THEN makenode_array(st, idx, 0, js_getlength(st, idx), <<>>, plat)
        ELSE IF js_isobject(v)
        THEN LET p == get_object_properties(st, idx, plat.order)
             IN  makenode_map(p.st, idx, 0, p.keys, <<>>, plat)
        ELSE [node |-> NodeNone, st |-> st]

(***************************************************************************)
(* The Nodes and engine values of the model.                               *)
(***************************************************************************)
Keys == {Ascii("a"), Ascii("b")}

\* the leaves the trees are built from
TreeLeaves == {NodeFlag(TRUE), NodeInt64(I64(1)), NodeString(Ascii("x"))}

KeySeqs == {<<>>} \cup {<<k>> : k \in Keys}
               \cup {ks \in Keys \X Keys : ks[1] # ks[2]}

\* Trees(n): the Nodes of exactly n nodes; Forests(k, n): the sequences of
\* k Nodes of n nodes in all
RECURSIVE Trees(_)
RECURSIVE Forests(_, _)
Forests(k, n) ==
    IF k = 0 THEN (IF n = 0 THEN {<<>>} ELSE {})
    ELSE UNION { { <<t>> \o f : t \in Trees(m), f \in Forests(k - 1, n - m) }
                 : m \in 1..(n - (k - 1)) }

Trees(n) ==
    IF n < 1 THEN {}
    ELSE (IF n = 1 THEN TreeLeaves ELSE {})
         \cup UNION { { NodeArray(f) : f \in Forests(k, n - 1) }
                      : k \in 0..(n - 1) }
         \cup UNION { { NodeMap(ks, f) : f \in Forests(Len(ks), n - 1) }
                      : ks \in KeySeqs }

TreeNodes == UNION { Trees(n) : n \in 1..MaxNodeSize }

Smp == <<240, 144, 128, 128>>                \* U+10000 in UTF-8
SurrogatePair == <<237, 160, 128, 237, 176, 128>> \* U+10000 in CESU-8

Int64s ==
    {I64(n) : n \in -(MaxHalf \div 2)..(MaxHalf \div 2)}
    \cup {I64Big(k) : k \in -1..2} \cup {INT64_MAX, INT64_MIN}

Doubles ==
    {Dbl(h) : h \in -MaxHalf..MaxHalf}
    \cup {DblBig(-1), DblBig(0), DblBig(2)}
    \cup {DblOf(c) : c \in {"p63", "n63", "nan", "inf", "ninf"}}

NodeStrings ==
    {<<>>, Ascii("x"), <<226, 130, 172>>, Smp, <<65>> \o Smp \o Smp,
     SurrogatePair, <<240>>}

Leaves ==
    {NodeNone, NodeFlag(FALSE), NodeFlag(TRUE)}
    \cup {NodeInt64(v) : v \in Int64s}
    \cup {NodeDouble(d) : d \in Doubles}
    \cup {NodeString(s) : s \in NodeStrings}

LeafNodes ==
    Leaves \cup {NodeArray(<<l>>) : l \in Leaves}
           \cup {NodeMap(<<Ascii("a")>>, <<l>>) : l \in Leaves}
           \cup {NodeMap(<<Smp, Ascii("a")>>, <<l, NodeNone>>) : l \in Leaves}

\* a format pushnode has no case for, or a NULL list
Malformed ==
    {NodeOther("OSD_STRING"), NodeOther("BYTE_ARRAY"),
     NodeNullList("NODE_ARRAY"), NodeNullList("NODE_MAP")}

MalformedNodes ==
    Malformed \cup {NodeArray(<<NodeFlag(TRUE), x>>) : x \in Malformed}
              \cup {NodeMap(<<Ascii("a")>>, <<x>>) : x \in Malformed}

\* {"a": 1, "b": [true, "x"]}
ScenarioC ==
    NodeMap(<<Ascii("a"), Ascii("b")>>,
            <<NodeInt64(I64(1)),
              NodeArray(<<NodeFlag(TRUE), NodeString(Ascii("x"))>>)>>)

Nodes == TreeNodes \cup LeafNodes \cup MalformedNodes \cup {ScenarioC}

\* engine values no Node marshals into
JsBuffer == [t |-> "buffer"]
Prop(k, v) == [k |-> k, v |-> v]

OtherValues ==
    LET atoms == {JsUndefined, JsBuffer, JsFunction(<<>>),
                  JsFunction(<<Prop(Ascii("a"), JsBool(TRUE))>>),
                  JsStr(<<237, 160, 128>>)}
    IN  atoms \cup {JsArray(<<JsBool(TRUE), v>>) : v \in atoms}
              \cup {JsObject(<<Prop(Ascii("b"), v), Prop(Ascii("a"), JsNull)>>)
                    : v \in atoms}

\* the frame of a script function called as f(name, value)
Frame == <<JsUndefined, JsStr(Ascii("x"))>>

(***************************************************************************)
(* SpecMarshal: a Node is marshalled into the engine with pushnode and     *)
(* the value on the stack is marshalled back with makenode, or makenode    *)
(* is applied to a value the script made.                                  *)
(*   mpc     "node" (mnode not yet pushed) | "value" (a value is on the    *)
(*           stack) | "done" | "crashed"                                   *)
(*   mres    the last call: op, the stack depth before it, and what it     *)
(*           was applied to and yielded                                    *)
(***************************************************************************)
NoCall ==
    [op |-> "none", before |-> 0, crashed |-> FALSE, node |-> NodeNone,
     value |-> JsUndefined, idx |-> 0, order |-> "", fpcast |-> "",
     pushed |-> FALSE]

InitMarshal ==
    /\ \/ mpc = "node" /\ mnode \in Nodes /\ mstack = Frame
       \/ /\ mpc = "value" /\ mnode = NodeNone
          /\ \E v \in OtherValues : mstack = Append(Frame, v)
    /\ mres = NoCall
    /\ TranscodeIdle
    /\ BridgeIdle
    /\ ExtIdle

\* pushnode(J, &mnode)
PushNode ==
    /\ mpc = "node"
    /\ \E nullderef \in NullDerefs :
          LET r == pushnode(mstack, mnode, nullderef)
          IN  /\ mstack' = r.st
              /\ mpc' = IF r.crashed THEN "crashed" ELSE "value"
              /\ mres' = [NoCall EXCEPT !.op = "pushnode",
                                        !.before = Len(mstack),
                                        !.crashed = r.crashed]
    /\ UNCHANGED <<mnode, tvars, bvars, xvars>>

\* makenode(tmp, &node, J, idx) on the value on top of the frame
MakeNode ==
    /\ mpc = "value"
    /\ \E idx \in {2, -1}, order \in EnumOrders, fpcast \in FpCasts :
          LET r == makenode(mstack, idx, [order |-> order, fpcast |-> fpcast])
          IN  /\ mstack' = r.st
              /\ mres' = [NoCall EXCEPT !.op = "makenode",
                                        !.before = Len(mstack),
                                        !.node = r.node,
                                        !.value = Slot(mstack, idx),
                                        !.idx = idx,
                                        !.order = order,
                                        !.fpcast = fpcast,
                                        !.pushed = (mres.op = "pushnode")]
    /\ mpc' = "done"
    /\ UNCHANGED <<mnode, tvars, bvars, xvars>>

NextMarshal == PushNode \/ MakeNode

SpecMarshal == InitMarshal /\ [][NextMarshal]_vars

(***************************************************************************)
(* What the marshalling claims speak of.                                   *)
(***************************************************************************)
\* a Node built from none, flag, int64, double, string, array and map with
\* unique keys
RECURSIVE WellFormedNode(_)
WellFormedNode(n) ==
    /\ n.format \in NodeFormats
    /\ "list" \notin DOMAIN n
    /\ n.format \in {"NODE_ARRAY", "NODE_MAP"} =>
          \A i \in 1..Len(n.values) : WellFormedNode(n.values[i])
    /\ n.format = "NODE_MAP" =>
          /\ Len(n.keys) = Len(n.values)
          /\ \A i, j \in 1..Len(n.keys) : n.keys[i] = n.keys[j] => i = j

\* the int64 v and the double d are the same number
NumEq(v, d) ==
    \/ v.c = "small" /\ d = Dbl(2 * v.i)
    \/ v.c = "big" /\ d = DblBig(v.i)
    \/ v.c = "min" /\ d = DblOf("n63")

\* the double has an integral value
Integral(d) ==
    \/ d.c = "fin" /\ d.h % 2 = 0
    \/ d.c \in {"big", "p63", "n63"}

\* every string and key of the Node is well-formed UTF-8
RECURSIVE StringsUtf8(_)
StringsUtf8(n) ==
    /\ n.format = "STRING" => IsUtf8(n.string)
    /\ n.format = "NODE_MAP" => \A i \in 1..Len(n.keys) : IsUtf8(n.keys[i])
    /\ n.format \in {"NODE_ARRAY", "NODE_MAP"} =>
          \A i \in 1..Len(n.values) : StringsUtf8(n.values[i])

\* every number of the Node survives the engine's number type: an int64 is
\* a double exactly, and a double is not integral
RECURSIVE NumbersExact(_)
NumbersExact(n) ==
    /\ n.format = "INT64" => NumEq(n.int64, Int64ToDouble(n.int64))
    /\ n.format = "DOUBLE" => \lnot Integral(n.double_)
    /\ n.format \in {"NODE_ARRAY", "NODE_MAP"} =>
          \A i \in 1..Len(n.values) : NumbersExact(n.values[i])

KeyIndex(n, k) == CHOOSE i \in 1..Len(n.keys) : n.keys[i] = k

\* equal but for the order of the entries of the maps
RECURSIVE SameUpToKeyOrder(_, _)
SameUpToKeyOrder(a, b) ==
    /\ a.format = b.format
    /\ CASE a.format = "NODE_ARRAY" ->
              /\ Len(a.values) = Len(b.values)
              /\ \A i \in 1..Len(a.values) :
                    SameUpToKeyOrder(a.values[i], b.values[i])
         [] a.format = "NODE_MAP" ->
              /\ Len(a.keys) = Len(b.keys)
              /\ {a.keys[i] : i \in 1..Len(a.keys)}
                    = {b.keys[i] : i \in 1..Len(b.keys)}
              /\ \A i \in 1..Len(a.keys) :
                    SameUpToKeyOrder(a.values[i],
                                     b.values[KeyIndex(b, a.keys[i])])
         [] OTHER -> a = b

\* mnode was pushed with pushnode and then read back with makenode
RoundTrip == mres.op = "makenode" /\ mres.pushed

\* C3 (as stated): pushnode followed by makenode yields a Node structurally
\* equal to the original, for every Node built from none, flag, int64,
\* double, string, array and map with unique keys.
C3_RoundTripEqual ==
    (RoundTrip /\ WellFormedNode(mnode) /\ StringsUtf8(mnode))
        => mres.node = mnode

\* C3 (amended): when every int64 of the Node is exactly a double, no double
\* is integral and every string is well-formed UTF-8, pushnode followed by
\* makenode yields the original Node up to the order of the entries of its
\* maps, and the original Node itself when the engine enumerates properties
\* in creation order.
C3_RoundTripExact ==
    (RoundTrip /\ WellFormedNode(mnode) /\ StringsUtf8(mnode)
               /\ NumbersExact(mnode))
        => /\ SameUpToKeyOrder(mres.node, mnode)
           /\ mres.order = "insertion" => mres.node = mnode

C3_Witness ==
    /\ RoundTrip
    /\ mnode = ScenarioC
    /\ mres.order = "sorted"
    /\ mres.node = ScenarioC
    /\ Len(mstack) = mres.before

\* the UTF-8 form of an engine string, and the engine form of a UTF-8 string
Utf8Of(s) == u8j__as_utf8(s, U8J_IMPL_STACK_BUF_SIZ, TRUE).str
Cesu8Of(s) == u8j__as_cesu8(s, U8J_IMPL_STACK_BUF_SIZ, TRUE).str

PropValue(props, k) == props[PropIndex(props, k)].v

\* the mapping of makenode, as the claim states it, from the value v to the
\* Node n on a build plat
RECURSIVE MapsToNode(_, _, _)
MapsToNode(v, n, plat) ==
    CASE v.t \in {"undefined", "null"} -> n = NodeNone
      [] v.t = "boolean" -> n = NodeFlag(v.b)
      [] v.t = "string" -> n = NodeString(Utf8Of(v.s))
      [] v.t = "number" ->
           IF DoubleEq(v.d, Int64ToDouble(DoubleToInt64(v.d, plat.fpcast)))
           THEN n.format = "INT64" /\ NumEq(n.int64, v.d)
           ELSE n = NodeDouble(v.d)
      [] v.t = "array" ->
           /\ n.format = "NODE_ARRAY"
           /\ Len(n.values) = Len(v.elems)
           /\ \A i \in 1..Len(v.elems) :
                 MapsToNode(v.elems[i], n.values[i], plat)
      [] v.t \in {"object", "function"} ->
           /\ n.format = "NODE_MAP"
           /\ Len(n.keys) = Len(v.props)
           /\ Len(n.values) = Len(v.props)
           /\ LET ks == EnumKeys(v.props, plat.order)
              IN  \A i \in 1..Len(ks) :
                     /\ n.keys[i] = Utf8Of(ks[i])
                     /\ MapsToNode(PropValue(v.props, ks[i]), n.values[i],
                                   plat)
      [] OTHER -> TRUE

MadeNode == mres.op = "makenode"
Plat == [order |-> mres.order, fpcast |-> mres.fpcast]

\* C4: makenode maps undefined and null to none, a boolean to flag, a
\* string to string, an array to an array Node of the marshalled elements
\* in order, a non-array object to a map Node with one entry per own
\* property in the engine's iteration order, a number x to int64 x when
\* x == (double)(int64)x and to double x otherwise; the stack depth is the
\* same after the call as before it.
C4_MakeNodeMapping ==
    MadeNode => /\ MapsToNode(mres.value, mres.node, Plat)
                /\ Len(mstack) = mres.before

\* the number 2^63 became the int64 2^63 - 1
C4_Witness ==
    /\ MadeNode
    /\ mres.value = JsNum(DblOf("p63"))
    /\ mres.node = NodeInt64(INT64_MAX)

\* C5: makenode applied to a value of any other kind than undefined, null,
\* boolean, number, string, array or plain object, a callable in
\* particular, yields a none Node.
C5_OtherKindIsNone ==
    (MadeNode /\ mres.value.t \notin {"undefined", "null", "boolean", "number",
                                      "string", "array", "object"})
        => mres.node = NodeNone

\* a function became a map Node
C5_Witness ==
    /\ MadeNode
    /\ mres.value = JsFunction(<<>>)
    /\ mres.node = NodeMap(<<>>, <<>>)

\* the mapping of pushnode, as the claim states it, from the Node n to the
\* value v
RECURSIVE MapsToValue(_, _)
MapsToValue(n, v) ==
    CASE n.format = "NONE" -> v = JsNull
      [] n.format = "FLAG" -> v = JsBool(n.flag)
      [] n.format = "INT64" ->
           v.t = "number" /\ (NumEq(n.int64, Int64ToDouble(n.int64))
                                 => NumEq(n.int64, v.d))
      [] n.format = "DOUBLE" -> v = JsNum(n.double_)
      [] n.format = "STRING" -> v = JsStr(Cesu8Of(n.string))
      [] n.format = "NODE_ARRAY" ->
           /\ v.t = "array"
           /\ Len(v.elems) = Len(n.values)
           /\ \A i \in 1..Len(n.values) : MapsToValue(n.values[i], v.elems[i])
      [] n.format = "NODE_MAP" ->
           /\ v.t = "object"
           /\ Len(v.props) = Len(n.keys)
           /\ {v.props[i].k : i \in 1..Len(v.props)}
                 = {Cesu8Of(n.keys[i]) : i \in 1..Len(n.keys)}
           /\ \A i \in 1..Len(n.keys) :
                 MapsToValue(n.values[i],
                             PropValue(v.props, Cesu8Of(n.keys[i])))

PushedNode == mres.op = "pushnode"
Top == mstack[Len(mstack)]

\* C6: pushnode maps none to null, flag to boolean, int64 and double to
\* number, string to string, an array Node to an array of the same length
\* and order, a map Node with key set K to an object whose own properties
\* are exactly K, each bound to the marshalled value of its entry; it
\* leaves exactly one new value on the stack (and the rest untouched).
C6_PushNodeMapping ==
    (PushedNode /\ WellFormedNode(mnode))
        => /\ \lnot mres.crashed
           /\ Len(mstack) = mres.before + 1
           /\ SubSeq(mstack, 1, mres.before) = Frame
           /\ MapsToValue(mnode, Top)

C6_Witness ==
    /\ PushedNode
    /\ mnode = ScenarioC
    /\ Top = JsObject(<<Prop(Ascii("a"), JsNum(Dbl(2))),
                        Prop(Ascii("b"), JsArray(<<JsBool(TRUE),
                                                   JsStr(Ascii("x"))>>))>>)
    /\ Len(mstack) = Len(Frame) + 1

\* C7 (as stated): pushnode given a malformed Node fails fast rather than
\* producing an engine value.
C7_FailFast ==
    (PushedNode /\ mnode \in MalformedNodes) => mres.crashed

\* C7 (amended): pushnode given a Node of an unrecognised format pushes the
\* string "[UNKNOWN_VALUE_FORMAT]" in its place, as the one new value, and
\* nothing fails; given an array or map Node with a NULL list it reads
\* through the pointer unchecked: the process is killed, or an empty
\* array/object is the value.
C7_Placeholder ==
    (PushedNode /\ mnode \in Malformed)
        => IF "list" \in DOMAIN mnode
           THEN \/ mres.crashed
                \/ /\ Len(mstack) = mres.before + 1
                   /\ Top \in {JsArray(<<>>), JsObject(<<>>)}
           ELSE /\ \lnot mres.crashed
                /\ mstack = Append(Frame,
                                   JsStr(Ascii("[UNKNOWN_VALUE_FORMAT]")))

C7_Witness ==
    /\ PushedNode
    /\ mnode = NodeOther("BYTE_ARRAY")
    /\ \lnot mres.crashed
    /\ Top = JsStr(Ascii("[UNKNOWN_VALUE_FORMAT]"))

(***************************************************************************)
(* The host's client API, as far as a script function sees it: the call    *)
(* yields a status (negative: an error code) and, for a getter, a result.  *)
(***************************************************************************)
Statuses == {1, 0, -8, -10, -99}

\* the host's text for a status: "success" for every status >= 0
mpv_error_string(err) ==
    CASE err >= 0  -> "success"
      [] err = -4  -> "invalid parameter"
      [] err = -8  -> "property not found"
      [] err = -10 -> "property unavailable"
      [] err = -12 -> "error running command"
      [] OTHER     -> "unknown error"

(***************************************************************************)
(* Error handling.  A context b is what a script function works on:        *)
(*   st     its stack: this, then the arguments, then what it pushed       *)
(*   les    mp.last_error_string ("": never set); the texts are ASCII,     *)
(*          which js_pushstring hands to the engine unchanged              *)
(*   wrote  whether the function has set mp.last_error_string              *)
(***************************************************************************)
NoStr == "NULL"

\* js_getglobal "mp"; js_pushstring; js_setproperty; js_pop
set_last_error(b, err, str) ==
    [b EXCEPT !.les = IF str # NoStr THEN str ELSE mpv_error_string(err),
              !.wrote = TRUE]

\* mutant: status 0 is handled as an error
handledAsError_zero(b, err) ==
    IF err > 0 THEN [handled |-> 0, b |-> b]
    ELSE LET b1 == set_last_error(b, err, NoStr)
         IN  [handled |-> 1, b |-> [b1 EXCEPT !.st = js_push(@, JsUndefined)]]

\* [handled, b]
handledAsError(b, err) ==
    IF err >= 0 THEN [handled |-> 0, b |-> b]
    ELSE LET b1 == set_last_error(b, err, NoStr)
         IN  [handled |-> 1, b |-> [b1 EXCEPT !.st = js_push(@, JsUndefined)]]

\* mutant: mp.last_error_string is set on failure only
handledAsErrDef_onfail(b, err) ==
    IF js_isundefined(Slot(b.st, 2)) THEN handledAsError(b, err)
    ELSE IF err >= 0 THEN [handled |-> 0, b |-> b]
    ELSE LET b1 == set_last_error(b, err, NoStr)
         IN  [handled |-> 1,
              b |-> [b1 EXCEPT !.st = js_push(@, Slot(b1.st, 2))]]

\* [handled, b]
handledAsErrDef(b, err) ==
    IF js_isundefined(Slot(b.st, 2)) THEN handledAsError(b, err)
    ELSE LET b1 == set_last_error(b, err, NoStr)
         IN  IF err >= 0 THEN [handled |-> 0, b |-> b1]
             ELSE [handled |-> 1,
                   b |-> [b1 EXCEPT !.st = js_push(@, Slot(b1.st, 2))]]

pushStatus(b, err) ==
    LET r == handledAsError(b, err)
    IN  IF r.handled = 0 THEN [r.b EXCEPT !.st = js_push(@, JsBool(TRUE))]
        ELSE r.b

\* js_error(J, ...): the function is left by the engine's exception
JsRaised == [t |-> "raised"]
js_error(b) == [b EXCEPT !.st = js_push(@, JsRaised)]

(***************************************************************************)
(* Spec: the script calls the functions of mp one after the other.         *)
(*   last_error_string   mp.last_error_string                              *)
(*   call                the last call: the function, the host's status    *)
(*                       (hosted: the host was called), the argument at    *)
(*                       index 2 (def), the host's result (host), the      *)
(*                       value returned (ret), mp.last_error_string        *)
(*                       before the call, whether the call set it (wrote), *)
(*                       and whether the last call that set it was a       *)
(*                       successful host call (writer_ok)                  *)
(***************************************************************************)
NoScriptCall ==
    [fn |-> "none", hosted |-> FALSE, err |-> 0, def |-> JsUndefined,
     host |-> JsUndefined, ret |-> JsUndefined, before |-> "",
     wrote |-> FALSE, writer_ok |-> FALSE]

Init ==
    /\ last_error_string = ""
    /\ call = NoScriptCall
    /\ TranscodeIdle
    /\ mpc = "idle" /\ mnode = NodeNone /\ mstack = <<>> /\ mres = NoCall
    /\ ExtIdle

\* the frame of a call: this, then the arguments
Enter(args) ==
    [st |-> <<JsUndefined>> \o args, les |-> last_error_string,
     wrote |-> FALSE]

\* the function returns: the value on top of the stack is its result
Return(fn, hosted, err, def, host, b) ==
    /\ last_error_string' = b.les
    /\ call' = [fn |-> fn, hosted |-> hosted,
                err |-> IF hosted THEN err ELSE 0,
                def |-> def, host |-> host, ret |-> Slot(b.st, -1),
                before |-> last_error_string, wrote |-> b.wrote,
                writer_ok |-> IF b.wrote THEN hosted /\ err >= 0
                              ELSE call.writer_ok]
    /\ UNCHANGED <<tvars, mvars, xvars>>

Name == JsStr(Ascii("x"))

\* the second argument of a get_property* call
DefArgs == {JsUndefined, JsNull, JsNum(Dbl(84))}

\* the value argument of set_property_native
NativeArgs ==
    {JsBool(TRUE), JsStr(SurrogatePair), JsFunction(<<>>),
     JsObject(<<Prop(Ascii("a"), JsNum(Dbl(2)))>>)}

script_log ==
    \E valid \in BOOLEAN :
        LET b == Enter(<<JsStr(Ascii("a")), Name>>)
        IN  Return("log", FALSE, 0, JsUndefined, JsUndefined,
                   IF valid THEN pushStatus(b, 1) ELSE js_error(b))

script__request_event ==
    \E err \in Statuses :
        Return("_request_event", TRUE, err, JsUndefined, JsUndefined,
               pushStatus(Enter(<<Name, JsBool(TRUE)>>), err))

script_enable_messages ==
    \E valid \in BOOLEAN, err \in Statuses :
        LET b == Enter(<<JsStr(Ascii("a"))>>)
        IN  IF valid
            THEN Return("enable_messages", TRUE, err, JsUndefined,
                        JsUndefined, pushStatus(b, err))
            ELSE Return("enable_messages", FALSE, 0, JsUndefined,
                        JsUndefined, js_error(b))

script_command ==
    \E err \in Statuses :
        Return("command", TRUE, err, JsUndefined, JsUndefined,
               pushStatus(Enter(<<Name>>), err))

script_commandv ==
    \E nargs \in {1, 2, MAX_LENGTH_COMMANDV - 1, MAX_LENGTH_COMMANDV},
       err \in Statuses :
        LET b == Enter([i \in 1..nargs |-> Name])
            length == js_gettop(b.st)
        IN  IF length = 0 \/ length > MAX_LENGTH_COMMANDV
            THEN Return("commandv", FALSE, 0, JsUndefined, JsUndefined,
                        js_error(b))
            ELSE Return("commandv", TRUE, err, JsUndefined, JsUndefined,
                        pushStatus(b, err))

script_set_property ==
    \E err \in Statuses :
        Return("set_property", TRUE, err, Name, JsUndefined,
               pushStatus(Enter(<<Name, Name>>), err))

script_set_property_bool ==
    \E v \in BOOLEAN, err \in Statuses :
        Return("set_property_bool", TRUE, err, JsBool(v), JsUndefined,
               pushStatus(Enter(<<Name, JsBool(v)>>), err))

script_set_property_number ==
    \E err \in Statuses :
        Return("set_property_number", TRUE, err, JsNum(Dbl(3)), JsUndefined,
               pushStatus(Enter(<<Name, JsNum(Dbl(3))>>), err))

script_set_property_native ==
    \E v \in NativeArgs, order \in EnumOrders, fpcast \in FpCasts,
       err \in Statuses :
        LET b == Enter(<<Name, v>>)
            m == makenode(b.st, 2, [order |-> order, fpcast |-> fpcast])
        IN  Return("set_property_native", TRUE, err, v, JsUndefined,
                   pushStatus([b EXCEPT !.st = m.st], err))

script__observe_property ==
    \E err \in Statuses :
        Return("_observe_property", TRUE, err, Name, JsUndefined,
               pushStatus(Enter(<<JsNum(Dbl(2)), Name, JsNum(Dbl(2))>>), err))

script__unobserve_property ==
    \E err \in Statuses :
        Return("_unobserve_property", TRUE, err, JsUndefined, JsUndefined,
               pushStatus(Enter(<<JsNum(Dbl(2))>>), err))

\* what the host hands out as a property
HostStrings == {Ascii("x"), Smp}
HostNumbers == {Dbl(3), Dbl(84)}
HostNodes == {NodeInt64(I64(1)), ScenarioC}

\* a getter returns: the default or undefined when handled, else the pushed
\* result
Got(r, pushed) == IF r.handled = 0 THEN [r.b EXCEPT !.st = pushed] ELSE r.b

script_get_property ==
    \E def \in DefArgs, err \in Statuses, result \in HostStrings :
        LET r == handledAsErrDef(Enter(<<Name, def>>), err)
        IN  Return("get_property", TRUE, err, def, result,
                   Got(r, js_pushstring(r.b.st, result)))

script_get_property_osd ==
    \E def \in DefArgs, err \in Statuses, result \in HostStrings :
        LET r == handledAsErrDef(Enter(<<Name, def>>), err)
        IN  Return("get_property_osd", TRUE, err, def, result,
                   Got(r, js_pushstring(r.b.st, result)))

script_get_property_bool ==
    \E def \in DefArgs, err \in Statuses, result \in {0, 1} :
        LET r == handledAsErrDef(Enter(<<Name, def>>), err)
        IN  Return("get_property_bool", TRUE, err, def, result,
                   Got(r, js_push(r.b.st, JsBool(result # 0))))

script_get_property_number ==
    \E def \in DefArgs, err \in Statuses, result \in HostNumbers :
        LET r == handledAsErrDef(Enter(<<Name, def>>), err)
        IN  Return("get_property_number", TRUE, err, def, result,
                   Got(r, js_push(r.b.st, JsNum(result))))

script_get_property_native ==
    \E def \in DefArgs, err \in Statuses, result \in HostNodes,
       nullderef \in NullDerefs :
        LET r == handledAsErrDef(Enter(<<Name, def>>), err)
        IN  Return("get_property_native", TRUE, err, def, result,
                   Got(r, pushnode(r.b.st, result, nullderef).st))

\* mp_getcwd failed: undefined, and the text "Error"
script_getcwd ==
    \E failed \in BOOLEAN :
        LET b == Enter(<<>>)
        IN  Return("getcwd", FALSE, 0, JsUndefined, JsUndefined,
                   IF failed
                   THEN set_last_error([b EXCEPT !.st = js_push(@, JsUndefined)],
                                       0, "Error")
                   ELSE [b EXCEPT !.st = js_pushstring(@, Ascii("x"))])

Next ==
    \/ script_log
    \/ script__request_event
    \/ script_enable_messages
    \/ script_command
    \/ script_commandv
    \/ script_set_property
    \/ script_set_property_bool
    \/ script_set_property_number
    \/ script_set_property_native
    \/ script__observe_property
    \/ script__unobserve_property
    \/ script_get_property
    \/ script_get_property_osd
    \/ script_get_property_bool
    \/ script_get_property_number
    \/ script_get_property_native
    \/ script_getcwd

Spec == Init /\ [][Next]_vars

(***************************************************************************)
(* What the status claims speak of.                                        *)
(***************************************************************************)
StatusFns ==
    {"command", "commandv", "set_property", "set_property_bool",
     "set_property_number", "set_property_native", "_observe_property",
     "_unobserve_property", "_request_event", "enable_messages"}

GetterFns ==
    {"get_property", "get_property_bool", "get_property_number",
     "get_property_native", "get_property_osd"}

\* the last call was a boolean-status call that reached the host
StatusCall == call.fn \in StatusFns /\ call.hosted

\* the last call was a getter with a second argument that is not undefined
DefaultCall == call.fn \in GetterFns /\ call.def # JsUndefined

\* the value returned is the engine value of the host's result
ReturnsHostValue ==
    CASE call.fn \in {"get_property", "get_property_osd"} ->
           call.ret = JsStr(Cesu8Of(call.host))
      [] call.fn = "get_property_bool" -> call.ret = JsBool(call.host = 1)
      [] call.fn = "get_property_number" -> call.ret = JsNum(call.host)
      [] call.fn = "get_property_native" -> MapsToValue(call.host, call.ret)

\* C1: a boolean-status call returns true and leaves mp.last_error_string
\* as it was when the host's status is >= 0; when the status is < 0 it sets
\* mp.last_error_string to the host's text for that status and returns
\* undefined, never true.
C1_StatusCall ==
    StatusCall =>
        IF call.err >= 0
        THEN call.ret = JsBool(TRUE) /\ last_error_string = call.before
        ELSE /\ call.ret = JsUndefined
             /\ last_error_string = mpv_error_string(call.err)
             /\ last_error_string # "success"

C1_Witness ==
    /\ call.fn = "set_property_bool"
    /\ call.err = -8
    /\ call.ret = JsUndefined
    /\ call.before = "success"
    /\ last_error_string = "property not found"

\* C2: a getter called with a default d returns d and leaves the host's
\* text for the status in mp.last_error_string when the status is < 0; it
\* returns the host's value and leaves "success" there when the status is
\* >= 0.  mp.last_error_string is "success" only if the last call that set
\* it succeeded.
C2_DefaultCall ==
    /\ DefaultCall =>
          IF call.err < 0
          THEN /\ call.ret = call.def
               /\ last_error_string = mpv_error_string(call.err)
               /\ last_error_string # "success"
          ELSE /\ ReturnsHostValue
               /\ last_error_string = "success"
    /\ last_error_string = "success" => call.writer_ok

C2_Witness ==
    /\ call.fn = "get_property_number"
    /\ call.def = JsNum(Dbl(84))
    /\ call.err = -10
    /\ call.ret = JsNum(Dbl(84))
    /\ call.before = "success"
    /\ last_error_string = "property unavailable"
(***************************************************************************)
(* The passes over raw memory (mujsutf8.h).  A buffer is the sequence of   *)
(* the bytes found at the pointer; a pass is given a declared length and   *)
(* the model records the index of every byte it reads.                     *)
(***************************************************************************)

\* the indexes u8j__is_utf8_smp(s + i) reads: && stops at the first false
\* operand, and the last operand reads s[0] and s[1] again
u8j__is_utf8_smp_reads(s, i) ==
    {i} \cup
    IF BitAnd(At(s, i), 248) # 240 THEN {}
    ELSE {i + 1} \cup
         IF BitAnd(At(s, i + 1), 192) # 128 THEN {}
         ELSE {i + 2} \cup
              IF BitAnd(At(s, i + 2), 192) # 128 THEN {} ELSE {i + 3}

\* for (; i <= last; i++) with last = utf8_len - 4
RECURSIVE u8j_lcesu8_len_loop(_, _, _, _, _)
u8j_lcesu8_len_loop(utf8, last, i, smp_count, reads) ==
    IF ~(i <= last) THEN [smp_count |-> smp_count, reads |-> reads]
    ELSE u8j_lcesu8_len_loop(utf8, last, i + 1,
            IF u8j__is_utf8_smp(utf8, i) THEN smp_count + 1 ELSE smp_count,
            reads \cup u8j__is_utf8_smp_reads(utf8, i))

\* mutant: the loop runs to utf8_len - 3
u8j_lcesu8_len_late(utf8, utf8_len) ==
    IF utf8_len < 3 THEN [len |-> 0, reads |-> {}]
    ELSE LET r == u8j_lcesu8_len_loop(utf8, utf8_len - 3, 0, 0, {})
         IN  [len |-> IF r.smp_count # 0 THEN utf8_len + r.smp_count * 2 ELSE 0,
              reads |-> r.reads]

\* [len: the value returned; reads: the indexes read]
u8j_lcesu8_len(utf8, utf8_len) ==
    IF utf8_len < 4 THEN [len |-> 0, reads |-> {}]
    ELSE LET r == u8j_lcesu8_len_loop(utf8, utf8_len - 4, 0, 0, {})
         IN  [len |-> IF r.smp_count # 0 THEN utf8_len + r.smp_count * 2 ELSE 0,
              reads |-> r.reads]

\* the indexes the first loop of u8j_write_cesu8 reads: s is the read
\* index, d the write index
RECURSIVE u8j_write_cesu8_reads_loop(_, _, _, _, _)
u8j_write_cesu8_reads_loop(utf8_src, s, d, fin, reads) ==
    IF ~(d <= fin - 6) THEN [s |-> s, d |-> d, reads |-> reads]
    ELSE IF u8j__is_utf8_smp(utf8_src, s)
    THEN u8j_write_cesu8_reads_loop(utf8_src, s + 4, d + 6, fin,
            reads \cup u8j__is_utf8_smp_reads(utf8_src, s))
    ELSE u8j_write_cesu8_reads_loop(utf8_src, s + 1, d + 1, fin,
            reads \cup u8j__is_utf8_smp_reads(utf8_src, s) \cup {s})

\* the indexes read by while (dst < fin) *dst++ = *s++
RECURSIVE u8j_write_cesu8_reads_tail(_, _, _, _)
u8j_write_cesu8_reads_tail(s, d, fin, reads) ==
    IF ~(d < fin) THEN reads
    ELSE u8j_write_cesu8_reads_tail(s + 1, d + 1, fin, reads \cup {s})

u8j_write_cesu8_reads(utf8_src, cesu8_len) ==
    LET a == u8j_write_cesu8_reads_loop(utf8_src, 0, 0, cesu8_len, {})
    IN  u8j_write_cesu8_reads_tail(a.s, a.d, cesu8_len, a.reads)

(***************************************************************************)
(* u8j_write_utf8 with utf8_dst == cesu8_src.  m is the memory of the      *)
(* string, its NUL included; every store changes m before the next read.   *)
(***************************************************************************)
\* m[i] = b
Store(m, i, b) == [m EXCEPT ![i + 1] = b]

\* mutant: dst[1] is stored first and dst[0] is made from s[1] read afterwards
u8j_write_utf8_pair_reread(m, s, d) ==
    LET top5 == U8(BitAnd(At(m, s + 1), 15) + 1)
        m1 == Store(m, d + 1,
                    U8(BitOr(BitOr(128, Shl(BitAnd(top5, 3), 4)),
                             Shr(BitAnd(At(m, s + 2), 63), 2))))
        again == U8(BitAnd(At(m1, s + 1), 15) + 1)
        m0 == Store(m1, d, U8(BitOr(240, Shr(again, 2))))
        m2 == Store(m0, d + 2,
                    U8(BitOr(BitOr(128, Shl(BitAnd(At(m0, s + 2), 3), 4)),
                             BitAnd(At(m0, s + 4), 15))))
        m3 == Store(m2, d + 3, At(m2, s + 5))
    IN  [m |-> m3, s |-> s + 6, d |-> d + 4]

\* the branch of a surrogate pair: top5 is read, then dst[0] .. dst[3] are
\* stored one after the other, each from the memory as it is by then
u8j_write_utf8_pair(m, s, d) ==
    LET top5 == U8(BitAnd(At(m, s + 1), 15) + 1)
        m0 == Store(m, d, U8(BitOr(240, Shr(top5, 2))))
        m1 == Store(m0, d + 1,
                    U8(BitOr(BitOr(128, Shl(BitAnd(top5, 3), 4)),
                             Shr(BitAnd(At(m0, s + 2), 63), 2))))
        m2 == Store(m1, d + 2,
                    U8(BitOr(BitOr(128, Shl(BitAnd(At(m1, s + 2), 3), 4)),
                             BitAnd(At(m1, s + 4), 15))))
        m3 == Store(m2, d + 3, At(m2, s + 5))
    IN  [m |-> m3, s |-> s + 6, d |-> d + 4]

\* the loop on one memory: s is the read index, d the write index, behind
\* tells that d <= s held at every step so far, smp counts the pairs
RECURSIVE u8j_write_utf8_inplace_loop(_, _, _, _, _)
u8j_write_utf8_inplace_loop(m, s, d, behind, smp) ==
    IF At(m, s) = 0 \/ At(m, s) = OOB
    THEN [m |-> Store(m, d, 0), d |-> d, behind |-> behind /\ d <= s,
          smp |-> smp]
    ELSE IF u8j__is_cesu8_smp(m, s)
    THEN LET p == u8j_write_utf8_pair(m, s, d)
         IN  u8j_write_utf8_inplace_loop(p.m, p.s, p.d, behind /\ d <= s,
                                         smp + 1)
    ELSE u8j_write_utf8_inplace_loop(Store(m, d, At(m, s)), s + 1, d + 1,
                                     behind /\ d <= s, smp)

\* [dst: the bytes at the pointer afterwards, the NUL included]
u8j_write_utf8_inplace(str) ==
    LET r == u8j_write_utf8_inplace_loop(Append(str, 0), 0, 0, TRUE, 0)
    IN  [dst |-> SubSeq(r.m, 1, r.d + 1), behind |-> r.behind, smp |-> r.smp]

\* js_pushlstring(J, v, n): the engine makes a string of the n bytes at v
js_pushlstring(v, n) == SubSeq(v, 1, n)

(***************************************************************************)
(* u8j__pushslcesu8string and u_js_pushlstring.  The result records        *)
(*   cesu8_len  what the counting pass returned                            *)
(*   counted    the indexes of v the counting pass read                    *)
(*   written    the indexes of v the write pass read ({}: no write pass)   *)
(*   where      "src" | "buf" | "mem" | "throw": the memory pushed from    *)
(*   pushed     the bytes of the string pushed                             *)
(* bufsiz is sizeof buf.                                                   *)
(***************************************************************************)
u8j__pushslcesu8string(utf8, cesu8_len, bufsiz, ok) ==
    IF cesu8_len < bufsiz
    THEN [where |-> "buf",
          written |-> u8j_write_cesu8_reads(utf8, cesu8_len),
          pushed |-> js_pushlstring(u8j_write_cesu8(utf8, cesu8_len).dst,
                                    cesu8_len)]
    ELSE IF u8j__malloc(cesu8_len + 1, ok).thrown
    THEN [where |-> "throw", written |-> {}, pushed |-> <<>>]
    ELSE [where |-> "mem",
          written |-> u8j_write_cesu8_reads(utf8, cesu8_len),
          pushed |-> js_pushlstring(u8j_write_cesu8(utf8, cesu8_len).dst,
                                    cesu8_len)]

u_js_pushlstring(v, n, bufsiz, ok) ==
    LET c == u8j_lcesu8_len(v, n)
    IN  IF c.len = 0
        THEN [cesu8_len |-> 0, counted |-> c.reads, where |-> "src",
              written |-> {}, pushed |-> js_pushlstring(v, n)]
        ELSE LET p == u8j__pushslcesu8string(v, c.len, bufsiz, ok)
             IN  [cesu8_len |-> c.len, counted |-> c.reads, where |-> p.where,
                  written |-> p.written, pushed |-> p.pushed]

(***************************************************************************)
(* SpecBuffer: a buffer is chosen, then one pass is applied to it.         *)
(*   lc.op   "none" | "pushlstring" | "write_utf8"                         *)
(***************************************************************************)
\* U+1F600 in CESU-8
Grinning == <<237, 160, 189, 237, 184, 128>>

\* the buffers: the byte strings, byte strings with a NUL inside and byte
\* strings around a pair whose six bytes all differ from the four of UTF-8
Buffers ==
    Strings \cup { s \o <<0>> \o t : s \in StringsOf(1), t \in StringsOf(1) }
            \cup { s \o Grinning \o t : s \in StringsOf(1), t \in StringsOf(1) }

NoPass == [op |-> "none", n |-> 0, bufsiz |-> 0, r |-> <<>>]

InitBuffer ==
    /\ lsrc \in Buffers
    /\ lc = NoPass
    /\ TranscodeIdle
    /\ MarshalIdle
    /\ BridgeIdle
    /\ IdleExcept("buffer")

\* u_js_pushlstring(J, lsrc, n): the n first bytes of lsrc are the buffer
PushLString ==
    /\ lc.op = "none"
    /\ \E n \in 0..Len(lsrc), bufsiz \in {MaxBufSiz, U8J_IMPL_STACK_BUF_SIZ},
          ok \in BOOLEAN :
          lc' = [op |-> "pushlstring", n |-> n, bufsiz |-> bufsiz,
                 r |-> u_js_pushlstring(lsrc, n, bufsiz, ok)]
    /\ UNCHANGED <<lsrc, tvars, mvars, bvars, avars, rvars, svars, yvars>>

\* u8j_write_utf8(lsrc, lsrc), and u8j_write_utf8(lsrc, buf) beside it
WriteUtf8InPlace ==
    /\ lc.op = "none"
    /\ lc' = [op |-> "write_utf8", n |-> 0, bufsiz |-> 0,
              r |-> [inplace |-> u8j_write_utf8_inplace(lsrc),
                     separate |-> u8j_write_utf8(lsrc)]]
    /\ UNCHANGED <<lsrc, tvars, mvars, bvars, avars, rvars, svars, yvars>>

NextBuffer == PushLString \/ WriteUtf8InPlace

SpecBuffer == InitBuffer /\ [][NextBuffer]_vars

\* C11: pushing a length-delimited buffer of declared length n with
\* u_js_pushlstring, neither the counting pass nor the write pass reads a
\* byte of the source at an index >= n
C11_NoReadPastLength ==
    lc.op = "pushlstring" =>
        \A i \in lc.r.counted \cup lc.r.written : i < lc.n

\* a converted buffer whose last byte is the lead byte of a truncated
\* four-byte sequence, read by the write pass
C11_Witness ==
    /\ lc.op = "pushlstring"
    /\ lc.r.cesu8_len # 0
    /\ lc.n >= 1
    /\ BitAnd(lsrc[lc.n], 248) = 240
    /\ (lc.n - 1) \in lc.r.written
    /\ lc.r.pushed # <<>>

\* C12: u8j_write_utf8 with the destination equal to the source stores the
\* bytes it stores into a separate destination, and at every step the write
\* position is at or behind the read position
C12_InPlaceSame ==
    lc.op = "write_utf8" =>
        /\ lc.r.inplace.dst = lc.r.separate.dst
        /\ lc.r.inplace.behind

\* a string in which a pair was rewritten and bytes after it were moved down
C12_Witness ==
    /\ lc.op = "write_utf8"
    /\ lc.r.inplace.smp >= 1
    /\ Len(lc.r.inplace.dst) < Len(lsrc) + 1
    /\ lc.r.inplace.dst[Len(lc.r.inplace.dst) - 1] = 65
    /\ lsrc[Len(lsrc)] = 65
(***************************************************************************)
(* The buffers of the string wrappers (mujsutf8.h).                        *)
(*   aheap[p]   the buffer u8j__malloc returned as p:                      *)
(*              kind   "in" (an input wrapper's) | "out" (a return value)  *)
(*              frees  how often u8j__free was given p                     *)
(*              by     who freed it last: "return" | "handler" |           *)
(*                     "finalizer" | "none"                                *)
(*   audata[u]  a userdata made by u8j__push_utf8ret: mem is its buffer,   *)
(*              ref what references it ("stack" | "prop" | "none"),        *)
(*              finalized whether the engine ran its finalizer             *)
(*   acall      fn, where the string handed on is ("src" | "buf" | "mem" | *)
(*              "throw"), mem (the buffer, 0: none), exit ("none" |        *)
(*              "returned" | "raised"), stale (the wrapped call was given  *)
(*              a buffer already freed)                                    *)
(***************************************************************************)
MaxAllocs == 3      \* u8j__malloc returns at most this many buffers

u8j__free(heap, ptr, by) ==
    [heap EXCEPT ![ptr].frees = @ + 1, ![ptr].by = by]

NewBuffer(heap, kind) ==
    Append(heap, [kind |-> kind, frees |-> 0, by |-> "none"])

\* one wrapper of each shape: U8J__IN_NON, U8J__IN_INT, the two pushes,
\* U8J__OUT_TO_TRY and u_js_nextiterator
InNonFns == {"setproperty"}
InIntFns == {"hasproperty"}
PushFns == {"pushstring", "pushlstring"}
OutFns == {"tostring", "nextiterator"}

\* where the CESU-8 string handed to the wrapped call is
u8j__in_where(fn, str, bufsiz, ok) ==
    IF fn = "pushstring"
    THEN LET cesu8_len == u8j_cesu8_len(str)
         IN  IF cesu8_len = 0 THEN "src"
             ELSE u8j__pushslcesu8string(str, cesu8_len, bufsiz, ok).where
    ELSE IF fn = "pushlstring"
    THEN u_js_pushlstring(str, Len(str), bufsiz, ok).where
    ELSE u8j__as_cesu8(str, bufsiz, ok).ret

\* mutant: the handler re-throws without freeing
u8j__in_catch_leak(heap, mem) == heap

\* if (js_try(J)) { u8j__free(J, cesu8_str); js_throw(J); }
u8j__in_catch(heap, mem) == u8j__free(heap, mem, "handler")

\* js_endtry(J); u8j__free(J, cesu8_str);
u8j__in_leave(heap, mem) == u8j__free(heap, mem, "return")

\* u8j__push_utf8ret: if (js_try(J)) { u8j__free(J, mem); js_throw(J); }
u8j__out_catch(heap, mem) == u8j__free(heap, mem, "handler")

\* mutant: the userdata is made without a finalizer
u8j__utf8ret_nofinalize(heap, mem) == heap

\* the finalizer given to js_newuserdatax: u8j__free
u8j__utf8ret_finalize(heap, mem) == u8j__free(heap, mem, "finalizer")

NoWrapperCall ==
    [fn |-> "", where |-> "src", mem |-> 0, exit |-> "none", stale |-> FALSE]

Exit(fn, where, how) ==
    [fn |-> fn, where |-> where, mem |-> 0, exit |-> how, stale |-> FALSE]

\* the strings given to an input wrapper (UTF-8) and returned by the engine
\* to an output wrapper (CESU-8)
InStrings == {<<65>>, Smp, Smp \o Smp}
OutStrings == {<<65>>, SurrogatePair}

InSizes == {MaxBufSiz, U8J_IMPL_STACK_BUF_SIZ}

\* u8j__in_where of every call of the model
InWhere ==
    [fn \in InNonFns \cup InIntFns \cup PushFns, str \in InStrings,
     bufsiz \in InSizes, ok \in BOOLEAN |->
        u8j__in_where(fn, str, bufsiz, ok)]

\* u8j_utf8_len of every string the engine returns
OutLen == [str \in OutStrings |-> u8j_utf8_len(str)]

InitAlloc ==
    /\ apc = "idle"
    /\ acall = NoWrapperCall
    /\ aheap = <<>>
    /\ audata = <<>>
    /\ TranscodeIdle
    /\ MarshalIdle
    /\ BridgeIdle
    /\ IdleExcept("alloc")

\* an input wrapper is called: U8J__IN_NON, U8J__IN_INT, u_js_pushstring or
\* u_js_pushlstring up to the wrapped call.  Without a buffer of its own the
\* wrapped call runs at once, and returns or raises.
CallIn ==
    /\ apc = "idle"
    /\ Len(aheap) < MaxAllocs
    /\ \E fn \in InNonFns \cup InIntFns \cup PushFns, str \in InStrings,
          bufsiz \in InSizes, ok \in BOOLEAN, raises \in BOOLEAN :
          LET where == InWhere[fn, str, bufsiz, ok]
          IN  IF where = "throw"
              THEN /\ acall' = Exit(fn, where, "raised")
                   /\ UNCHANGED <<apc, aheap>>
              ELSE IF where = "mem"
              THEN /\ aheap' = NewBuffer(aheap, "in")
                   /\ acall' = [Exit(fn, where, "none")
                                  EXCEPT !.mem = Len(aheap) + 1]
                   /\ apc' = "in_try"
              ELSE /\ acall' = Exit(fn, where,
                                    IF raises THEN "raised" ELSE "returned")
                   /\ UNCHANGED <<apc, aheap>>
    /\ UNCHANGED <<audata, tvars, mvars, bvars, lvars, rvars, svars, yvars>>

\* the wrapped call returns: js_endtry, u8j__free
WrappedReturns ==
    /\ apc = "in_try"
    /\ aheap' = u8j__in_leave(aheap, acall.mem)
    /\ acall' = [acall EXCEPT !.exit = "returned",
                              !.stale = aheap[acall.mem].frees > 0]
    /\ apc' = "idle"
    /\ UNCHANGED <<audata, tvars, mvars, bvars, lvars, rvars, svars, yvars>>

\* the wrapped call raises: the handler frees and throws again
WrappedRaises ==
    /\ apc = "in_try"
    /\ aheap' = u8j__in_catch(aheap, acall.mem)
    /\ acall' = [acall EXCEPT !.exit = "raised",
                              !.stale = aheap[acall.mem].frees > 0]
    /\ apc' = "idle"
    /\ UNCHANGED <<audata, tvars, mvars, bvars, lvars, rvars, svars, yvars>>

\* u_js_tostring, u_js_torepr or u_js_nextiterator up to js_try in
\* u8j__push_utf8ret: the engine call returns str or raises, then the
\* buffer is allocated and written when str needs a conversion
CallOut ==
    /\ apc = "idle"
    /\ Len(aheap) < MaxAllocs
    /\ \E fn \in OutFns, str \in OutStrings, ok \in BOOLEAN,
          raises \in BOOLEAN :
          LET utf8_len == OutLen[str]
          IN  IF raises
              THEN /\ acall' = Exit(fn, "src", "raised")
                   /\ UNCHANGED <<apc, aheap>>
              ELSE IF utf8_len = 0
              THEN /\ acall' = Exit(fn, "src", "returned")
                   /\ UNCHANGED <<apc, aheap>>
              ELSE IF u8j__malloc(utf8_len + 1, ok).thrown
              THEN /\ acall' = Exit(fn, "throw", "raised")
                   /\ UNCHANGED <<apc, aheap>>
              ELSE /\ aheap' = NewBuffer(aheap, "out")
                   /\ acall' = [Exit(fn, "mem", "none")
                                  EXCEPT !.mem = Len(aheap) + 1]
                   /\ apc' = "out_try"
    /\ UNCHANGED <<audata, tvars, mvars, bvars, lvars, rvars, svars, yvars>>

\* js_pushnull and js_newuserdatax succeed, js_endtry; then js_replace puts
\* the userdata in the slot (tostring, torepr), or js_setproperty makes it
\* the iterator's "u8j_ret" (nextiterator), in place of the one before; a
\* js_setproperty that raises leaves the userdata to the unwound stack
UserdataMade ==
    /\ apc = "out_try"
    /\ \E raises \in BOOLEAN :
          LET ud(ref) == [mem |-> acall.mem, ref |-> ref, finalized |-> FALSE]
              unset == [u \in DOMAIN audata |->
                          IF audata[u].ref = "prop"
                          THEN [audata[u] EXCEPT !.ref = "none"]
                          ELSE audata[u]]
          IN  IF acall.fn # "nextiterator"
              THEN /\ audata' = Append(audata, ud("stack"))
                   /\ acall' = [acall EXCEPT !.exit = "returned"]
              ELSE IF raises
              THEN /\ audata' = Append(audata, ud("none"))
                   /\ acall' = [acall EXCEPT !.exit = "raised"]
              ELSE /\ audata' = Append(unset, ud("prop"))
                   /\ acall' = [acall EXCEPT !.exit = "returned"]
    /\ apc' = "idle"
    /\ UNCHANGED <<aheap, tvars, mvars, bvars, lvars, rvars, svars, yvars>>

\* js_pushnull or js_newuserdatax raises: the handler frees and throws again
UserdataRaises ==
    /\ apc = "out_try"
    /\ aheap' = u8j__out_catch(aheap, acall.mem)
    /\ acall' = [acall EXCEPT !.exit = "raised"]
    /\ apc' = "idle"
    /\ UNCHANGED <<audata, tvars, mvars, bvars, lvars, rvars, svars, yvars>>

\* the script or the caller drops what referenced a userdata: the slot is
\* popped or overwritten, the iterator is gone
Unreference ==
    /\ apc = "idle"
    /\ \E u \in DOMAIN audata :
          /\ audata[u].ref # "none"
          /\ audata' = [audata EXCEPT ![u].ref = "none"]
    /\ UNCHANGED <<apc, acall, aheap, tvars, mvars, bvars, lvars, rvars, svars, yvars>>

\* the engine collects a userdata nothing references and runs its finalizer
Collect ==
    /\ apc # "closed"
    /\ \E u \in DOMAIN audata :
          /\ audata[u].ref = "none"
          /\ ~audata[u].finalized
          /\ audata' = [audata EXCEPT ![u].finalized = TRUE]
          /\ aheap' = u8j__utf8ret_finalize(aheap, audata[u].mem)
    /\ UNCHANGED <<apc, acall, tvars, mvars, bvars, lvars, rvars, svars, yvars>>

\* the finalizers js_freestate runs: those of the userdata not finalized yet
RECURSIVE FinalizeAll(_, _, _)
FinalizeAll(heap, udata, u) ==
    IF u > Len(udata) THEN heap
    ELSE FinalizeAll(IF udata[u].finalized THEN heap
                     ELSE u8j__utf8ret_finalize(heap, udata[u].mem),
                     udata, u + 1)

\* js_freestate(J): the engine is torn down
FreeState ==
    /\ apc = "idle"
    /\ aheap' = FinalizeAll(aheap, audata, 1)
    /\ audata' = [u \in DOMAIN audata |->
                    [audata[u] EXCEPT !.ref = "none", !.finalized = TRUE]]
    /\ apc' = "closed"
    /\ UNCHANGED <<acall, tvars, mvars, bvars, lvars, rvars, svars, yvars>>

NextAlloc ==
    \/ CallIn \/ WrappedReturns \/ WrappedRaises
    \/ CallOut \/ UserdataMade \/ UserdataRaises
    \/ Unreference \/ Collect \/ FreeState

SpecAlloc == InitAlloc /\ [][NextAlloc]_vars

InBuffers == {p \in DOMAIN aheap : aheap[p].kind = "in"}
OutBuffers == {p \in DOMAIN aheap : aheap[p].kind = "out"}
\* the buffer of the wrapper call in progress
Held(p) == apc \in {"in_try", "out_try"} /\ acall.mem = p

\* C13: a buffer an input wrapper allocated is freed exactly once on every
\* exit path: after the wrapped call returned, or by the handler before the
\* exception is thrown again; never twice, never left, and not before the
\* wrapped call was done with it
C13_InputBufferFreedOnce ==
    /\ \A p \in InBuffers :
          /\ aheap[p].frees <= 1
          /\ Held(p) => aheap[p].frees = 0
          /\ ~Held(p) => /\ aheap[p].frees = 1
                         /\ aheap[p].by \in {"return", "handler"}
          /\ (acall.mem = p /\ acall.exit = "returned")
                => aheap[p].by = "return"
          /\ (acall.mem = p /\ acall.exit = "raised")
                => aheap[p].by = "handler"
    /\ ~acall.stale

\* one buffer was freed after a normal return and another by the handler
C13_Witness ==
    /\ apc = "idle"
    /\ \E p, q \in InBuffers :
          /\ aheap[p].by = "return" /\ aheap[p].frees = 1
          /\ aheap[q].by = "handler" /\ aheap[q].frees = 1

\* the userdata objects made for the buffer p
UserdataOf(p) == {u \in DOMAIN audata : audata[u].mem = p}

\* C14: the buffer of a converted return value is bound to one userdata
\* whose finalizer frees it, and is freed exactly once: by the finalizer
\* (at collection or at teardown) when the userdata was made, by the handler
\* when making it raised; it is not freed while the slot or the iterator's
\* u8j_ret property references the userdata
C14_ReturnBufferFreedOnce ==
    \A p \in OutBuffers :
        /\ aheap[p].frees <= 1
        /\ Cardinality(UserdataOf(p)) <= 1
        /\ Held(p) => aheap[p].frees = 0 /\ UserdataOf(p) = {}
        /\ (~Held(p) /\ UserdataOf(p) = {})
              => aheap[p].frees = 1 /\ aheap[p].by = "handler"
        /\ \A u \in UserdataOf(p) :
              /\ audata[u].ref # "none" => aheap[p].frees = 0
              /\ audata[u].finalized <=> aheap[p].frees = 1
              /\ aheap[p].frees = 1 => aheap[p].by = "finalizer"
        /\ apc = "closed" => aheap[p].frees = 1

\* after teardown: one buffer was freed by the finalizer of a userdata the
\* iterator still referenced, another by the handler
C14_Witness ==
    /\ apc = "closed"
    /\ \E p, q \in OutBuffers :
          /\ aheap[p].by = "finalizer" /\ aheap[p].frees = 1
          /\ aheap[q].by = "handler" /\ aheap[q].frees = 1
          /\ UserdataOf(p) # {} /\ UserdataOf(q) = {}
(***************************************************************************)
(* SpecRuntime: script threads, each running script_thread (scripting.c)   *)
(* with load_javascript as the backend's load function (javascript.c).     *)
(*   rt[i].pc    where thread i is:                                        *)
(*               "script_thread"  started, before backend->load            *)
(*               "add_functions" | "defaults" | "main" | "entry"           *)
(*                                the step of script_run_scripts to do     *)
(*               "event_loop"     inside js_call of mp_event_loop          *)
(*               "caught"         js_pcall returned non-zero               *)
(*               "error_out"      at the label error_out                   *)
(*               "loaded"         load_javascript returned                 *)
(*               "done"           the thread function returned             *)
(*   rt[i].J     "none" | "live" | "freed": the engine instance            *)
(*   rt[i].callable  mp_event_loop is a callable global                    *)
(*   rt[i].raised    an exception was raised under js_pcall                *)
(*   rt[i].r     the variable r, then the value load_javascript returned   *)
(*   rt[i].log   what the thread did, in order                             *)
(***************************************************************************)
MaxScripts == 2     \* the script threads of the model

Scripts == 1..MaxScripts

NewThread ==
    [pc |-> "script_thread", J |-> "none", callable |-> FALSE,
     raised |-> FALSE, r |-> -1, log |-> <<>>]

Did(t, what) == [t EXCEPT !.log = Append(@, what)]

\* an exception is raised under js_pcall(J, 0): js_pcall returns non-zero
Raise(t, what) ==
    [Did(t, what) EXCEPT !.pc = "caught", !.raised = TRUE]

\* mutant: the main file is run before the bootstrap script
script_run_scripts_main_first(pc) ==
    CASE pc = "add_functions" -> "main"
      [] pc = "main" -> "defaults"
      [] pc = "defaults" -> "entry"

\* the statement script_run_scripts goes to after the one at pc
script_run_scripts(pc) ==
    CASE pc = "add_functions" -> "defaults"
      [] pc = "defaults" -> "main"
      [] pc = "main" -> "entry"

\* mutant: a caught exception leaves r as it is after a normal return
load_javascript_catch_quiet(t) ==
    [t EXCEPT !.pc = "error_out", !.r = 0]

\* if (js_pcall(J, 0)) { mud_top_error_to_str(J); MP_FATAL(...); goto error_out; }
load_javascript_catch(t) ==
    [Did(t, "MP_FATAL") EXCEPT !.pc = "error_out"]

\* mutant: the engine is released before the client is resumed
load_javascript_error_out_engine_first(t) ==
    LET freed == IF t.J = "live"
                 THEN [Did(t, "js_freestate") EXCEPT !.J = "freed"]
                 ELSE t
    IN  [Did(freed, "mp_resume_all") EXCEPT !.pc = "loaded"]

\* error_out: mp_resume_all(client); if (J) js_freestate(J); return r;
load_javascript_error_out(t) ==
    LET resumed == Did(t, "mp_resume_all")
        freed == IF resumed.J = "live"
                 THEN [Did(resumed, "js_freestate") EXCEPT !.J = "freed"]
                 ELSE resumed
    IN  [freed EXCEPT !.pc = "loaded"]

\* mutant: the client of a script that failed to load is left undestroyed
script_thread_exit_failed_kept(t) ==
    IF t.r < 0
    THEN [Did(Did(t, "MP_ERR"), "Exiting") EXCEPT !.pc = "done"]
    ELSE [Did(Did(t, "Exiting"), "mpv_detach_destroy") EXCEPT !.pc = "done"]

\* script_thread after backend->load returned
script_thread_exit(t) ==
    LET told == IF t.r < 0 THEN Did(t, "MP_ERR") ELSE t
    IN  [Did(Did(told, "Exiting"), "mpv_detach_destroy") EXCEPT !.pc = "done"]

InitRuntime ==
    /\ rt = [i \in Scripts |-> NewThread]
    /\ TranscodeIdle
    /\ MarshalIdle
    /\ BridgeIdle
    /\ IdleExcept("runtime")

\* mutant: one engine for all the scripts, as if J were a static
RtStep_static_engine(i, t) ==
    /\ rt' = [j \in Scripts |-> IF j = i THEN t ELSE [rt[j] EXCEPT !.J = t.J]]
    /\ UNCHANGED <<tvars, mvars, bvars, lvars, avars, svars, yvars>>

\* ctx and J are locals of load_javascript: a step of the thread of script i
\* writes the state of script i
RtStep(i, t) ==
    /\ rt' = [rt EXCEPT ![i] = t]
    /\ UNCHANGED <<tvars, mvars, bvars, lvars, avars, svars, yvars>>

\* script_thread calls load_javascript, which makes the engine: js_newstate
\* returns NULL (goto error_out) or the engine, and js_pcall is entered
NewState(i) ==
    /\ rt[i].pc = "script_thread"
    /\ \E ok \in BOOLEAN :
          RtStep(i, IF ok
                    THEN [Did(rt[i], "js_newstate")
                            EXCEPT !.J = "live", !.pc = "add_functions"]
                    ELSE [rt[i] EXCEPT !.pc = "error_out"])

\* add_functions(get_ctx(J))
AddFunctions(i) ==
    /\ rt[i].pc = "add_functions"
    /\ \E raises \in BOOLEAN :
          RtStep(i, IF raises THEN Raise(rt[i], "add_functions raised")
                    ELSE [Did(rt[i], "add_functions")
                            EXCEPT !.pc = script_run_scripts(rt[i].pc)])

\* run_file(J, "@defaults.js")
RunDefaults(i) ==
    /\ rt[i].pc = "defaults"
    /\ \E raises \in BOOLEAN :
          RtStep(i, IF raises THEN Raise(rt[i], "@defaults.js raised")
                    ELSE [Did(rt[i], "@defaults.js")
                            EXCEPT !.pc = script_run_scripts(rt[i].pc)])

\* run_file(J, get_ctx(J)->filename): the script makes mp_event_loop a
\* callable global, or does not
RunMain(i) ==
    /\ rt[i].pc = "main"
    /\ \E raises \in BOOLEAN, defines \in BOOLEAN :
          RtStep(i, IF raises THEN Raise(rt[i], "main raised")
                    ELSE [Did(rt[i], "main")
                            EXCEPT !.pc = script_run_scripts(rt[i].pc),
                                   !.callable = defines])

\* js_getglobal(J, "mp_event_loop"); if (!js_iscallable(J, -1)) js_error;
\* js_pushglobal(J); js_call(J, 0) is entered
Entry(i) ==
    /\ rt[i].pc = "entry"
    /\ RtStep(i, IF ~rt[i].callable
                 THEN Raise(rt[i], "js_error no event loop function")
                 ELSE [Did(rt[i], "call mp_event_loop")
                         EXCEPT !.pc = "event_loop"])

\* mp_event_loop returns: js_pcall returns 0 and r = 0
EventLoopReturns(i) ==
    /\ rt[i].pc = "event_loop"
    /\ RtStep(i, [Did(rt[i], "mp_event_loop returned")
                    EXCEPT !.pc = "error_out", !.r = 0])

\* mp_event_loop raises
EventLoopRaises(i) ==
    /\ rt[i].pc = "event_loop"
    /\ RtStep(i, Raise(rt[i], "mp_event_loop raised"))

Caught(i) ==
    /\ rt[i].pc = "caught"
    /\ RtStep(i, load_javascript_catch(rt[i]))

ErrorOut(i) ==
    /\ rt[i].pc = "error_out"
    /\ RtStep(i, load_javascript_error_out(rt[i]))

ThreadExit(i) ==
    /\ rt[i].pc = "loaded"
    /\ RtStep(i, script_thread_exit(rt[i]))

\* the steps of thread i that do not wait for the script
Runs(i) ==
    \/ NewState(i) \/ AddFunctions(i) \/ RunDefaults(i) \/ RunMain(i)
    \/ Entry(i) \/ Caught(i) \/ ErrorOut(i) \/ ThreadExit(i)

NextRuntime ==
    \E i \in Scripts :
        \/ NewState(i) \/ AddFunctions(i) \/ RunDefaults(i) \/ RunMain(i)
        \/ Entry(i) \/ EventLoopReturns(i) \/ EventLoopRaises(i)
        \/ Caught(i) \/ ErrorOut(i) \/ ThreadExit(i)

SpecRuntime == InitRuntime /\ [][NextRuntime]_vars

\* the threads are scheduled: a thread that can take a step of its own
\* takes it; how long a script stays in its event loop is up to the script
SpecRuntimeFair ==
    SpecRuntime /\ \A i \in Scripts : WF_vars(Runs(i))

\* the first place of what in a log (0: not there), and how often it is there
RECURSIVE Place(_, _, _)
Place(log, what, n) ==
    IF n > Len(log) THEN 0
    ELSE IF log[n] = what THEN n
    ELSE Place(log, what, n + 1)

First(log, what) == Place(log, what, 1)
Count(log, what) == Cardinality({n \in DOMAIN log : log[n] = what})
Before(log, a, b) == First(log, a) # 0 /\ First(log, a) < First(log, b)

\* C15: in one runtime the function tables are installed before
\* @defaults.js runs, @defaults.js completes before the main file runs, and
\* mp_event_loop is called only after both completed without an exception;
\* when mp_event_loop is not callable after loading, an error is raised and
\* logged as fatal and the event loop is never started
C15_StartupOrder ==
    \A i \in Scripts :
        LET log == rt[i].log
            Done(what) == First(log, what) # 0
        IN  /\ (Done("@defaults.js") \/ Done("@defaults.js raised"))
                 => /\ Before(log, "add_functions", "@defaults.js")
                       \/ Before(log, "add_functions", "@defaults.js raised")
            /\ (Done("main") \/ Done("main raised"))
                 => /\ Before(log, "@defaults.js", "main")
                       \/ Before(log, "@defaults.js", "main raised")
                    /\ ~Done("@defaults.js raised")
            /\ Done("call mp_event_loop")
                 => /\ Before(log, "@defaults.js", "call mp_event_loop")
                    /\ Before(log, "main", "call mp_event_loop")
                    /\ ~rt[i].raised \/ Done("mp_event_loop raised")
                    /\ rt[i].callable
            /\ (Done("main") /\ ~rt[i].callable
                  /\ rt[i].pc \notin {"entry", "caught"})
                 => /\ Done("js_error no event loop function")
                    /\ Done("MP_FATAL")
                    /\ ~Done("call mp_event_loop")
            /\ (Done("main") /\ ~rt[i].callable)
                 => ~Done("call mp_event_loop")

\* one script started its event loop, another had no mp_event_loop
C15_Witness ==
    \E i, j \in Scripts :
        /\ rt[i].pc = "event_loop"
        /\ rt[j].pc = "done" /\ ~rt[j].callable
        /\ First(rt[j].log, "main") # 0

C16_Caught(i) ==
    LET t == rt[i]
    IN  /\ Count(t.log, "MP_FATAL") <= 1
        /\ ~t.raised => Count(t.log, "MP_FATAL") = 0
        /\ (t.raised /\ t.pc \in {"error_out", "loaded", "done"})
              => Count(t.log, "MP_FATAL") = 1 /\ t.r < 0
        /\ t.pc \in {"loaded", "done"}
              => /\ t.r \in {0, -1}
                 /\ t.r = 0 <=> /\ First(t.log, "mp_event_loop returned") # 0
                                /\ ~t.raised
        /\ t.pc = "done"
              => /\ t.log[Len(t.log)] = "mpv_detach_destroy"
                 /\ t.r < 0 <=> First(t.log, "MP_ERR") # 0

\* C16: an exception raised while the functions are installed, the
\* bootstrap or the main file runs or in the event loop is caught in
\* load_javascript, logged once as fatal, and load_javascript returns a
\* negative value; it returns 0 only when mp_event_loop returned; the thread
\* of a script that raised runs to its end
C16_FatalError ==
    /\ [](\A i \in Scripts : C16_Caught(i))
    /\ \A i \in Scripts : rt[i].raised ~> (rt[i].pc = "done")

\* one thread ended after an exception in its event loop, another after its
\* event loop returned
C16_Witness ==
    \E i, j \in Scripts :
        /\ rt[i].pc = "done" /\ rt[i].r < 0
        /\ First(rt[i].log, "mp_event_loop raised") # 0
        /\ First(rt[i].log, "MP_FATAL") # 0
        /\ rt[j].pc = "done" /\ rt[j].r = 0

\* C17 as stated: on teardown the engine instance is released first, the
\* host is told to resume the client second, and the client handle is
\* destroyed last
C17_EngineFirst ==
    \A i \in Scripts :
        (rt[i].pc = "done" /\ rt[i].J # "none")
            => /\ Before(rt[i].log, "js_freestate", "mp_resume_all")
               /\ Before(rt[i].log, "mp_resume_all", "mpv_detach_destroy")

\* C17, amended: on teardown, after a normal exit or a fatal error, the host
\* is told to resume the client first (mp_resume_all), the engine instance
\* is released second (js_freestate, when one was made), and the client
\* handle is destroyed last (mpv_detach_destroy)
C17_ResumeFirst ==
    \A i \in Scripts :
        LET t == rt[i]
        IN  /\ t.pc \in {"loaded", "done"}
              => /\ Count(t.log, "mp_resume_all") = 1
                 /\ t.J # "live"
                 /\ t.J = "freed"
                      => /\ Count(t.log, "js_freestate") = 1
                         /\ Before(t.log, "mp_resume_all", "js_freestate")
                 /\ t.J = "none" => Count(t.log, "js_freestate") = 0
            /\ t.pc = "done"
              => /\ Count(t.log, "mpv_detach_destroy") = 1
                 /\ Before(t.log, "mp_resume_all", "mpv_detach_destroy")
                 /\ t.J = "freed"
                      => Before(t.log, "js_freestate", "mpv_detach_destroy")
            /\ t.pc \notin {"loaded", "done"}
              => /\ Count(t.log, "mp_resume_all") = 0
                 /\ Count(t.log, "js_freestate") = 0
                 /\ Count(t.log, "mpv_detach_destroy") = 0

\* one runtime was torn down after a fatal error, another after its event
\* loop returned
C17_Witness ==
    \E i, j \in Scripts :
        /\ rt[i].pc = "done" /\ rt[i].J = "freed" /\ rt[i].raised
        /\ rt[j].pc = "done" /\ rt[j].J = "freed" /\ rt[j].r = 0
(***************************************************************************)
(* The script loader (scripting.c).  A C string is the sequence of its     *)
(* character codes; NoExt stands for the NULL mp_splitext returns.         *)
(***************************************************************************)
\* tolower of the "C" locale, and strcasecmp(a, b) == 0
ToLower(c) == IF c >= 65 /\ c <= 90 THEN c + 32 ELSE c
LowerCase(str) == [n \in DOMAIN str |-> ToLower(str[n])]
strcasecmp0(a, b) == LowerCase(a) = LowerCase(b)

\* strchr and strrchr as the index of the character (0: not found)
RECURSIVE strchr_from(_, _, _)
strchr_from(str, c, n) ==
    IF n > Len(str) THEN 0
    ELSE IF str[n] = c THEN n
    ELSE strchr_from(str, c, n + 1)

strchr(str, c) == strchr_from(str, c, 1)

RECURSIVE strrchr_from(_, _, _)
strrchr_from(str, c, n) ==
    IF n = 0 THEN 0
    ELSE IF str[n] = c THEN n
    ELSE strrchr_from(str, c, n - 1)

strrchr(str, c) == strrchr_from(str, c, Len(str))

From(str, n) == SubSeq(str, n, Len(str))

\* mp_basename: what follows the last '/'
mp_basename(path) == From(path, strrchr(path, 47) + 1)

NoExt == <<0>>

\* mp_splitext(path, NULL): what follows the last '.', unless nothing
\* follows it or a '/' does
mp_splitext(path) ==
    LET split == strrchr(path, 46)
    IN  IF split = 0 \/ split = Len(path) \/ strchr(From(path, split), 47) # 0
        THEN NoExt
        ELSE From(path, split + 1)

\* mutant: the name is cut at the first '.'
script_name_from_filename_first_dot(fname) ==
    LET base == mp_basename(fname)
        f == IF base # <<>> /\ base[1] = 64 THEN Tail(base) ELSE base
        dot == strchr(f, 46)
        name == IF dot # 0 THEN SubSeq(f, 1, dot - 1) ELSE f
    IN  [n \in DOMAIN name |->
            LET c == name[n]
            IN  IF ~(c >= 65 /\ c <= 90) /\ ~(c >= 97 /\ c <= 122)
                   /\ ~(c >= 48 /\ c <= 57)
                THEN 95 ELSE c]

script_name_from_filename(fname) ==
    LET base == mp_basename(fname)
        \* if (fname[0] == '@') fname += 1
        f == IF base # <<>> /\ base[1] = 64 THEN Tail(base) ELSE base
        \* char *dot = strrchr(name, '.'); if (dot) *dot = '\0'
        dot == strrchr(f, 46)
        name == IF dot # 0 THEN SubSeq(f, 1, dot - 1) ELSE f
    IN  [n \in DOMAIN name |->
            LET c == name[n]
            IN  IF ~(c >= 65 /\ c <= 90) /\ ~(c >= 97 /\ c <= 122)
                   /\ ~(c >= 48 /\ c <= 57)
                THEN 95 ELSE c]

\* the loop over script_opts: key, value, key, value, ...
RECURSIVE matching_backend_sopts(_, _, _, _)
matching_backend_sopts(sopts, ext_backend_key, b_name, i) ==
    IF i > Len(sopts) THEN TRUE
    ELSE IF strcasecmp0(ext_backend_key, sopts[i])
            /\ ~strcasecmp0(b_name, sopts[i + 1])
    THEN FALSE
    ELSE matching_backend_sopts(sopts, ext_backend_key, b_name, i + 2)

\* mutant: a requested backend is not looked for
matching_backend_any(sopts, ext, backend) ==
    LET colon == strchr(backend, 58)
    IN  IF colon = 0 THEN strcasecmp0(ext, backend)
        ELSE strcasecmp0(SubSeq(backend, 1, colon - 1), ext)

matching_backend(sopts, ext, backend) ==
    LET colon == strchr(backend, 58)                  \* bstr_split_tok ":"
        b_ext == SubSeq(backend, 1, colon - 1)
        b_name == From(backend, colon + 1)
    IN  IF colon = 0 THEN strcasecmp0(ext, backend)
        ELSE IF ~strcasecmp0(b_ext, ext) THEN FALSE
        \* "%s-backend"
        ELSE matching_backend_sopts(
                 sopts, ext \o <<45, 98, 97, 99, 107, 101, 110, 100>>,
                 b_name, 1)

\* the loop of mp_load_script over scripting_backends: the index of the
\* backend chosen (0: none)
RECURSIVE mp_load_script_backend(_, _, _)
mp_load_script_backend(cfg, ext, n) ==
    IF n > Len(cfg.backends) THEN 0
    ELSE IF ext # NoExt /\ matching_backend(cfg.sopts, ext, cfg.backends[n])
    THEN n
    ELSE mp_load_script_backend(cfg, ext, n + 1)

\* mp_clients_all_initialized(mpctx): every client there is has called in
mp_clients_all_initialized(clients) ==
    \A c \in DOMAIN clients : clients[c].state # "created"

\* mutant: the loader does not wait
wait_loaded_not(clients) == TRUE

\* wait_loaded returns when the loop condition is false
wait_loaded(clients) == mp_clients_all_initialized(clients)

(***************************************************************************)
(* SpecLoader: the host calls mp_load_script, one file after the other,    *)
(* while the script threads it started run.                                *)
(*   lcfg       backends: file_ext of scripting_backends[], in order;      *)
(*              sopts: script_opts (key, value, key, value, ...)           *)
(*   lclients   state  "created" | "initialized" | "destroyed"             *)
(*              thread "none" (pthread_create failed) | "running" |        *)
(*                     "exited"                                            *)
(*   lcall      fname, ext, backend (index, 0: none), name, before (the    *)
(*              clients there were), client (one was created), thread (one *)
(*              was started), returned                                     *)
(***************************************************************************)
MaxClients == 2     \* mp_load_script makes at most this many clients

\* "lua", "js:duktape", "js:mujs" and the "js" of a build with one engine
Builds ==
    { << <<108, 117, 97>>, <<106, 115, 58, 100, 117, 107, 116, 97, 112, 101>>,
         <<106, 115, 58, 109, 117, 106, 115>> >>,
      << <<108, 117, 97>>, <<106, 115, 58, 109, 117, 106, 115>> >>,
      << <<108, 117, 97>>, <<106, 115>> >> }

\* none; js-backend=mujs; JS-Backend=MuJS; js-backend=none;
\* js-backend=duktape,js-backend=mujs; lua-backend=x
ScriptOpts ==
    { <<>>,
      << <<106, 115, 45, 98, 97, 99, 107, 101, 110, 100>>,
         <<109, 117, 106, 115>> >>,
      << <<74, 83, 45, 66, 97, 99, 107, 101, 110, 100>>,
         <<77, 117, 74, 83>> >>,
      << <<106, 115, 45, 98, 97, 99, 107, 101, 110, 100>>,
         <<110, 111, 110, 101>> >>,
      << <<106, 115, 45, 98, 97, 99, 107, 101, 110, 100>>,
         <<100, 117, 107, 116, 97, 112, 101>>,
         <<106, 115, 45, 98, 97, 99, 107, 101, 110, 100>>,
         <<109, 117, 106, 115>> >>,
      << <<108, 117, 97, 45, 98, 97, 99, 107, 101, 110, 100>>, <<120>> >> }

Configs == [backends : Builds, sopts : ScriptOpts]

\* file names: "", "@" or "d.d/@", then "Az09", "a.b" or "-" and a two-byte
\* character, then "", ".js", ".JS" or ".lua"
Fnames ==
    { h \o s \o e :
        h \in {<<>>, <<64>>, <<100, 46, 100, 47, 64>>},
        s \in {<<65, 122, 48, 57>>, <<97, 46, 98>>, <<45, 195, 169>>},
        e \in {<<>>, <<46, 106, 115>>, <<46, 74, 83>>, <<46, 108, 117, 97>>} }

\* mp_splitext, script_name_from_filename and the backend loop, of every
\* file name and configuration of the model
ExtOf == [fname \in Fnames |-> mp_splitext(fname)]
NameOf == [fname \in Fnames |-> script_name_from_filename(fname)]
BackendOf ==
    [cfg \in Configs, fname \in Fnames |->
        mp_load_script_backend(cfg, ExtOf[fname], 1)]

NoLoad ==
    [fname |-> <<>>, ext |-> NoExt, backend |-> 0, name |-> <<>>,
     before |-> 0, client |-> FALSE, thread |-> FALSE, returned |-> FALSE]

InitLoader ==
    /\ lpc = "load"
    /\ lcfg \in Configs
    /\ lclients = <<>>
    /\ lcall = NoLoad
    /\ TranscodeIdle
    /\ MarshalIdle
    /\ BridgeIdle
    /\ IdleExcept("loader")

\* mp_load_script(mpctx, fname) up to wait_loaded, or to its return when no
\* backend matches or mp_new_client returns NULL
LoadScript ==
    /\ lpc = "load"
    /\ Len(lclients) < MaxClients
    /\ \E fname \in Fnames :
          LET backend == BackendOf[lcfg, fname]
              c == [NoLoad EXCEPT !.fname = fname, !.ext = ExtOf[fname],
                                  !.backend = backend,
                                  !.before = Len(lclients)]
          IN  IF backend = 0
              THEN /\ lcall' = [c EXCEPT !.returned = TRUE]
                   /\ UNCHANGED <<lpc, lclients>>
              ELSE \/ /\ lcall' = [c EXCEPT !.name = NameOf[fname],
                                            !.returned = TRUE]
                      /\ UNCHANGED <<lpc, lclients>>
                   \/ \E thread_ok \in BOOLEAN :
                         /\ lcall' = [c EXCEPT !.name = NameOf[fname],
                                               !.client = TRUE,
                                               !.thread = thread_ok]
                         /\ lclients' = Append(lclients,
                               [state |-> "created",
                                thread |-> IF thread_ok THEN "running"
                                                        ELSE "none"])
                         /\ lpc' = "wait"
    /\ UNCHANGED <<lcfg, tvars, mvars, bvars, lvars, avars, rvars, yvars>>

\* wait_loaded returns, and mp_load_script after it
WaitLoaded ==
    /\ lpc = "wait"
    /\ wait_loaded(lclients)
    /\ lpc' = "load"
    /\ lcall' = [lcall EXCEPT !.returned = TRUE]
    /\ UNCHANGED <<lcfg, lclients, tvars, mvars, bvars, lvars, avars, rvars, yvars>>

\* a script thread makes its client initialized
ClientInitialized ==
    /\ \E c \in DOMAIN lclients :
          /\ lclients[c].thread = "running"
          /\ lclients[c].state = "created"
          /\ lclients' = [lclients EXCEPT ![c].state = "initialized"]
    /\ UNCHANGED <<lpc, lcfg, lcall, tvars, mvars, bvars, lvars, avars, rvars, yvars>>

\* a script thread ends: mpv_detach_destroy(arg->client)
ScriptThreadEnds ==
    /\ \E c \in DOMAIN lclients :
          /\ lclients[c].thread = "running"
          /\ lclients' = [lclients EXCEPT ![c].state = "destroyed",
                                          ![c].thread = "exited"]
    /\ UNCHANGED <<lpc, lcfg, lcall, tvars, mvars, bvars, lvars, avars, rvars, yvars>>

NextLoader ==
    LoadScript \/ WaitLoaded \/ ClientInitialized \/ ScriptThreadEnds

SpecLoader == InitLoader /\ [][NextLoader]_vars

\* the extension a backend declares, and the name after its ':' if any
DeclaredExt(b) ==
    IF \E n \in DOMAIN b : b[n] = 58
    THEN SubSeq(b, 1, (CHOOSE n \in DOMAIN b :
                          b[n] = 58 /\ \A k \in 1..(n - 1) : b[k] # 58) - 1)
    ELSE b
HasName(b) == \E n \in DOMAIN b : b[n] = 58
DeclaredName(b) == From(b, Len(DeclaredExt(b)) + 2)
SameText(a, b) ==
    /\ Len(a) = Len(b)
    /\ \A n \in DOMAIN a : ToLower(a[n]) = ToLower(b[n])
\* the backends asked for with <ext>-backend=X
Requested(sopts, ext) ==
    { sopts[2 * k] : k \in { k \in 1..(Len(sopts) \div 2) :
        SameText(sopts[2 * k - 1],
                 ext \o <<45, 98, 97, 99, 107, 101, 110, 100>>) } }
Matches(cfg, ext, n) ==
    /\ ext # NoExt
    /\ SameText(DeclaredExt(cfg.backends[n]), ext)
    /\ HasName(cfg.backends[n])
          => \A X \in Requested(cfg.sopts, ext) :
                SameText(DeclaredName(cfg.backends[n]), X)

\* C18: mp_load_script takes the first backend in table order whose declared
\* extension is the file's without regard to case; a backend declared as
\* ext:name matches under <ext>-backend=X only if its name is X; with no
\* such entry the first backend of the extension wins; when no backend
\* matches, no client and no thread is made
C18_BackendSelection ==
    lcall.fname # <<>> =>
        /\ lcall.backend # 0
              => /\ Matches(lcfg, lcall.ext, lcall.backend)
                 /\ \A n \in 1..(lcall.backend - 1) :
                       ~Matches(lcfg, lcall.ext, n)
        /\ lcall.backend = 0
              => /\ \A n \in DOMAIN lcfg.backends : ~Matches(lcfg, lcall.ext, n)
                 /\ ~lcall.client /\ ~lcall.thread
                 /\ lcall.returned
        /\ (Requested(lcfg.sopts, lcall.ext) = {} /\ lcall.ext # NoExt
              /\ \E n \in DOMAIN lcfg.backends :
                    SameText(DeclaredExt(lcfg.backends[n]), lcall.ext))
              => /\ lcall.backend # 0
                 /\ \A n \in 1..(lcall.backend - 1) :
                       ~SameText(DeclaredExt(lcfg.backends[n]), lcall.ext)
        /\ ~lcall.client => Len(lclients) = lcall.before

\* js-backend=mujs made a .JS file skip js:duktape for js:mujs
C18_Witness ==
    /\ lcall.fname # <<>>
    /\ Len(lcfg.backends) = 3
    /\ lcall.backend = 3
    /\ Requested(lcfg.sopts, lcall.ext) # {}
    /\ lcall.ext = <<74, 83>>
    /\ lcall.client

IsAlnum(c) ==
    \/ c \in 48..57
    \/ c \in 65..90
    \/ c \in 97..122
\* the file name without its directory, one leading '@' and its last
\* extension
StemOf(fname) ==
    LET base == mp_basename(fname)
        rest == IF base # <<>> /\ base[1] = 64 THEN Tail(base) ELSE base
        dots == { n \in DOMAIN rest : rest[n] = 46 }
    IN  IF dots = {}
        THEN rest
        ELSE SubSeq(rest, 1, (CHOOSE n \in dots : \A k \in dots : k <= n) - 1)

\* C19: the client name of a script is its file name without directory, one
\* leading '@' and last extension, with every byte that is not an ASCII
\* letter or digit replaced by '_': it has the length of that stem and only
\* bytes out of [A-Za-z0-9_]
C19_ScriptName ==
    (lcall.fname # <<>> /\ lcall.backend # 0) =>
        LET stem == StemOf(lcall.fname)
        IN  /\ Len(lcall.name) = Len(stem)
            /\ \A n \in DOMAIN lcall.name :
                  /\ IsAlnum(lcall.name[n]) \/ lcall.name[n] = 95
                  /\ lcall.name[n] = IF IsAlnum(stem[n]) THEN stem[n] ELSE 95

\* "d.d/@a.b.js" was named "a_b"
C19_Witness ==
    /\ lcall.backend # 0
    /\ lcall.fname = <<100, 46, 100, 47, 64, 97, 46, 98, 46, 106, 115>>
    /\ lcall.name = <<97, 95, 98>>

\* C20: mp_load_script returns, and the next script is loaded, only once no
\* client of the host is uninitialized; it waits for that and not for the
\* end of the script's thread
C20_WaitsForInit ==
    /\ lpc = "load" => \A c \in DOMAIN lclients : lclients[c].state # "created"
    /\ (lpc = "wait" /\ \A c \in DOMAIN lclients :
                            lclients[c].state # "created")
          => ENABLED WaitLoaded

\* mp_load_script returned while the thread it started runs, and a second
\* script was loaded after the first
C20_Witness ==
    /\ lpc = "load"
    /\ lcall.returned
    /\ lcall.thread
    /\ Len(lclients) = 2
    /\ lclients[2].state = "initialized"
    /\ lclients[2].thread = "running"
    /\ lclients[1].thread = "running"

\* a step of the script thread of client c
ScriptThread(c) ==
    /\ c \in DOMAIN lclients
    /\ ClientInitialized \/ ScriptThreadEnds
    /\ lclients'[c] # lclients[c]

\* mp_idle returns, and every script thread that was started runs on, to
\* its end
SpecLoaderFair ==
    /\ SpecLoader
    /\ WF_vars(WaitLoaded)
    /\ \A c \in 1..MaxClients : WF_vars(ScriptThread(c))

\* C21: mp_load_script always eventually returns, and every client it
\* created is eventually destroyed by its script thread
C21_LoaderReturns ==
    /\ (lpc = "wait") ~> (lpc = "load")
    /\ \A c \in 1..MaxClients :
          (Len(lclients) >= c)
             ~> (Len(lclients) >= c /\ lclients[c].state = "destroyed")

\* what is left of C21 when pthread_create does not fail
C21_ExceptThreadFailure ==
    \/ <>(\E c \in DOMAIN lclients : lclients[c].thread = "none")
    \/ C21_LoaderReturns

\* pthread_create failed: mp_load_script is in wait_loaded, its client is
\* uninitialized and has no thread
C21_Witness ==
    /\ lpc = "wait"
    /\ lcall.client
    /\ ~lcall.thread
    /\ lclients[Len(lclients)].state = "created"
    /\ lclients[Len(lclients)].thread = "none"
    /\ ~ENABLED WaitLoaded

(***************************************************************************)
(* SpecEvent: mp.wait_event.                                               *)
(*   wev   the call: where the thread is (pc: "script", or "host" inside   *)
(*         mpv_wait_event), whether it has returned (called), the          *)
(*         arguments, the timeout handed to mpv_wait_event, the event it   *)
(*         returned, js_gettop at entry (top), the stack (st), and whether *)
(*         the process was killed on the way                               *)
(* An event is [event_id, reply_userdata, error, data]; event_id is the    *)
(* name mpv_event_name gives it.                                           *)
(***************************************************************************)
\* 1e20, the double that stands for 'forever'
Forever == DblOf("1e20")

\* d < 0 for a double d
DoubleNegative(d) ==
    \/ d.c = "fin" /\ d.h < 0
    \/ d.c \in {"n63", "ninf"}

\* the bytes of a property name of the event object
Key(c) ==
    CASE c = "event"  -> <<101, 118, 101, 110, 116>>
      [] c = "id"     -> <<105, 100>>
      [] c = "error"  -> <<101, 114, 114, 111, 114>>
      [] c = "prefix" -> <<112, 114, 101, 102, 105, 120>>
      [] c = "level"  -> <<108, 101, 118, 101, 108>>
      [] c = "text"   -> <<116, 101, 120, 116>>
      [] c = "args"   -> <<97, 114, 103, 115>>
      [] c = "name"   -> <<110, 97, 109, 101>>
      [] c = "data"   -> <<100, 97, 116, 97>>

\* mutant: a timeout of 0 waits forever too
script_wait_event_timeout_zero(st) ==
    LET timeout == IF js_isnumber(Slot(st, -1)) THEN Slot(st, -1).d
                   ELSE Dbl(-2)
    IN  IF DoubleNegative(timeout) \/ timeout = Dbl(0) THEN Forever
        ELSE timeout

\* double timeout = js_isnumber(J, -1) ? js_tonumber(J, -1) : -1;
\* if (timeout < 0) timeout = 1e20;
script_wait_event_timeout(st) ==
    LET timeout == IF js_isnumber(Slot(st, -1)) THEN Slot(st, -1).d
                   ELSE Dbl(-2)
    IN  IF DoubleNegative(timeout) THEN Forever ELSE timeout

\* js_newobject(J); js_pushstring(J, mpv_event_name(event->event_id));
\* js_setproperty(J, -2, "event")
script_wait_event_reply_event(st, event) ==
    js_setproperty(
        js_push(js_push(st, JsObject(<<>>)), JsStr(event.event_id)),
        -2, Key("event"))

\* if (event->reply_userdata) { js_pushnumber; js_setproperty "id" }
script_wait_event_reply_id(st, event) ==
    IF event.reply_userdata # 0
    THEN js_setproperty(
             js_push(st, JsNum(Int64ToDouble(I64(event.reply_userdata)))),
             -2, Key("id"))
    ELSE st

\* if (event->error < 0) { js_pushstring(mpv_error_string); "error" }
script_wait_event_reply_error(st, event) ==
    IF event.error < 0
    THEN js_setproperty(js_push(st, JsStr(mpv_error_string(event.error))),
                        -2, Key("error"))
    ELSE st

\* the reply object with event, id and error
script_wait_event_reply(st, event) ==
    script_wait_event_reply_error(
        script_wait_event_reply_id(
            script_wait_event_reply_event(st, event), event), event)

\* case MPV_EVENT_LOG_MESSAGE
script_wait_event_log_message(st, msg) ==
    LET s1 == js_setproperty(js_pushstring(st, msg.prefix), -2, Key("prefix"))
        s2 == js_setproperty(js_pushstring(s1, msg.level), -2, Key("level"))
    IN  js_setproperty(js_pushstring(s2, msg.text), -2, Key("text"))

\* for (int n = 0; n < msg->num_args; n++)
RECURSIVE script_wait_event_args(_, _, _)
script_wait_event_args(st, args, n) ==
    IF ~(n < Len(args)) THEN st
    ELSE script_wait_event_args(
             js_setindex(js_pushstring(st, args[n + 1]), -2, n), args, n + 1)

\* mutant: the array of arguments is left on the stack
script_wait_event_client_message_left(st, msg) ==
    script_wait_event_args(js_push(st, JsArray(<<>>)), msg.args, 0)

\* case MPV_EVENT_CLIENT_MESSAGE
script_wait_event_client_message(st, msg) ==
    js_setproperty(
        script_wait_event_args(js_push(st, JsArray(<<>>)), msg.args, 0),
        -2, Key("args"))

\* switch (prop->format): the value of the property is pushed.
\* [st, crashed]
script_wait_event_property_data(st, prop, nullderef) ==
    CASE prop.format = "NODE" -> pushnode(st, prop.data, nullderef)
      [] prop.format = "DOUBLE" ->
           [st |-> js_push(st, JsNum(prop.data)), crashed |-> FALSE]
      [] prop.format = "INT64" ->
           [st |-> js_push(st, JsNum(Int64ToDouble(prop.data))),
            crashed |-> FALSE]
      [] prop.format = "FLAG" ->
           [st |-> js_push(st, JsBool(prop.data # 0)), crashed |-> FALSE]
      [] prop.format = "STRING" ->
           [st |-> js_pushstring(st, prop.data), crashed |-> FALSE]
      [] OTHER ->
           [st |-> js_push(st, JsUndefined), crashed |-> FALSE]

\* js_setproperty(J, -2, "data"), when the process is still there
script_wait_event_set_data(r) ==
    IF r.crashed THEN r
    ELSE [st |-> js_setproperty(r.st, -2, Key("data")), crashed |-> FALSE]

\* case MPV_EVENT_PROPERTY_CHANGE.  [st, crashed]
script_wait_event_property_change(st, prop, nullderef) ==
    script_wait_event_set_data(
        script_wait_event_property_data(
            js_setproperty(js_pushstring(st, prop.name), -2, Key("name")),
            prop, nullderef))

\* switch (event->event_id), on the reply object.  [st, crashed]
script_wait_event_switch(st, event, nullderef) ==
    CASE event.event_id = "log-message" ->
           [st |-> script_wait_event_log_message(st, event.data),
            crashed |-> FALSE]
      [] event.event_id = "client-message" ->
           [st |-> script_wait_event_client_message(st, event.data),
            crashed |-> FALSE]
      [] event.event_id = "property-change" ->
           script_wait_event_property_change(st, event.data, nullderef)
      [] OTHER -> [st |-> st, crashed |-> FALSE]

\* script_wait_event once mpv_wait_event has returned.  [st, crashed]
script_wait_event(st, event, nullderef) ==
    script_wait_event_switch(script_wait_event_reply(st, event), event,
                             nullderef)

\* what a script passes as the timeout: -1, 0, 1.5, 2^53, inf, -inf, NaN, or
\* no number
Timeouts ==
    {JsNum(Dbl(-2)), JsNum(Dbl(0)), JsNum(Dbl(3)), JsNum(DblBig(0)),
     JsNum(DblOf("inf")), JsNum(DblOf("ninf")), JsNum(DblOf("nan")),
     JsUndefined, JsNull, JsStr(<<53>>)}

EventData ==
    [event_id : {"log-message"},
     data : [prefix : {<<120>>}, level : {<<97>>},
             text : {<<97, 98>>, Smp}]]
    \cup
    [event_id : {"client-message"},
     data : [args : {<<>>, << <<120>> >>, << <<120>>, Smp >>}]]
    \cup
    [event_id : {"property-change"},
     data : [name : {<<120>>}, format : {"NODE"},
             data : HostNodes \cup {NodeOther("BYTE_ARRAY"),
                                    NodeNullList("NODE_ARRAY")}]
            \cup [name : {<<120>>}, format : {"DOUBLE"},
                  data : {Dbl(3), DblOf("nan")}]
            \cup [name : {<<120>>}, format : {"INT64"},
                  data : {I64(-1), INT64_MAX}]
            \cup [name : {<<120>>}, format : {"FLAG"}, data : {0, 1}]
            \cup [name : {<<120>>}, format : {"STRING"}, data : {<<97>>, Smp}]
            \cup [name : {<<120>>}, format : {"NONE", "OSD_STRING"},
                  data : {NULL}]]
    \cup
    [event_id : {"none", "shutdown"}, data : {NULL}]

Events ==
    { [event_id |-> e.event_id, data |-> e.data, reply_userdata |-> u,
       error |-> err] : e \in EventData, u \in {0, 7}, err \in {0, -8} }

NoWaitEvent ==
    [pc |-> "script", called |-> FALSE, args |-> <<>>, timeout |-> Dbl(0),
     event |-> NULL, top |-> 0, st |-> <<>>, crashed |-> FALSE]

InitEvent ==
    /\ wev = NoWaitEvent
    /\ TranscodeIdle
    /\ MarshalIdle
    /\ BridgeIdle
    /\ IdleExcept("event")

\* the script calls mp.wait_event with no argument or with one: the
\* function up to its call of mpv_wait_event, which blocks
WaitEvent ==
    /\ wev.pc = "script"
    /\ ~wev.crashed
    /\ \E args \in {<<>>} \cup { <<v>> : v \in Timeouts } :
          LET st == <<JsUndefined>> \o args
          IN  wev' = [NoWaitEvent EXCEPT
                         !.pc = "host", !.args = args,
                         !.timeout = script_wait_event_timeout(st),
                         !.top = js_gettop(st), !.st = st]
    /\ UNCHANGED NotEvent

\* mpv_wait_event returns an event: the rest of the function
EventReturned ==
    /\ wev.pc = "host"
    /\ \E event \in Events, nullderef \in NullDerefs :
          \E r \in {script_wait_event(wev.st, event, nullderef)} :
              wev' = [wev EXCEPT !.pc = "script", !.called = TRUE,
                                 !.event = event, !.st = r.st,
                                 !.crashed = r.crashed]
    /\ UNCHANGED NotEvent

NextEvent == WaitEvent \/ EventReturned

SpecEvent == InitEvent /\ [][NextEvent]_vars

\* C22: wait_event without a timeout, with one that is no number or with a
\* negative one waits with 1e20; with a non-negative number it waits with
\* that number
C22_Timeout ==
    (wev.called \/ wev.pc = "host") =>
        LET given == wev.args # <<>> /\ wev.args[1].t = "number"
            d == wev.args[1].d
        IN  /\ ~given => wev.timeout = Forever
            /\ (given /\ (d.c \in {"n63", "ninf"} \/ (d.c = "fin" /\ d.h < 0)))
                  => wev.timeout = Forever
            /\ (given /\ (d.c \in {"big", "p63", "inf"}
                             \/ (d.c = "fin" /\ d.h >= 0)))
                  => wev.timeout = d

\* wait_event(0) polled, and wait_event(-1) waited forever
C22_Witness ==
    /\ wev.called
    /\ wev.args = <<JsNum(Dbl(0))>>
    /\ wev.timeout = Dbl(0)

\* C28: wait_event leaves one value more than it found on the stack, the
\* event object, whatever the event and the format of a changed property
C28_OneValue ==
    (wev.called /\ ~wev.crashed) =>
        /\ js_gettop(wev.st) = wev.top + 1
        /\ SubSeq(wev.st, 1, wev.top) = <<JsUndefined>> \o wev.args
        /\ wev.st[Len(wev.st)].t = "object"
        /\ HasProp(wev.st[Len(wev.st)].props, Key("event"))

\* a property change of a format the function does not know
C28_Witness ==
    /\ wev.called
    /\ wev.event.event_id = "property-change"
    /\ wev.event.data.format = "OSD_STRING"
    /\ js_gettop(wev.st) = wev.top + 1
    /\ HasProp(wev.st[Len(wev.st)].props, Key("data"))

(***************************************************************************)
(* SpecSubprocess: utils.subprocess.  mp_subprocess runs the child and     *)
(* calls subprocess_stdout and subprocess_stderr with every chunk it reads *)
(* from the child's two pipes.                                             *)
(*   sub   pc "script" | "child" (inside mp_subprocess); max_size; output  *)
(*         and err, the bytes collected; chunks, the number of chunks      *)
(*         delivered; returned; stdout and stderr, the strings returned    *)
(***************************************************************************)
MaxChunks == 3      \* the child writes at most this many chunks

\* if (ctx->output.len < ctx->max_size) bstr_xappend(...)
subprocess_append(buf, max_size, data) ==
    IF Len(buf) < max_size THEN buf \o data ELSE buf

subprocess_stdout(ctx, data) ==
    [ctx EXCEPT !.output = subprocess_append(@, ctx.max_size, data)]

subprocess_stderr(ctx, data) ==
    [ctx EXCEPT !.err = subprocess_append(@, ctx.max_size, data)]

\* js_isundefined(J, -1) ? 16 * 1024 * 1024 : (int64_t)js_tointeger(J, -1)
script_subprocess_exec_max_size(v) ==
    IF js_isundefined(v) THEN 16 * 1024 * 1024 ELSE v.d.h \div 2

\* what the child writes at once
Chunks == {<<97>>, <<97, 98>>, <<97, 98, 99>>, Smp}

\* the max_size of the call: none, 0, 1, 2 or 4
MaxSizes == {JsUndefined, JsNum(Dbl(0)), JsNum(Dbl(2)), JsNum(Dbl(4)),
             JsNum(Dbl(8))}

NoSubprocess ==
    [pc |-> "script", max_size |-> 0, output |-> <<>>, err |-> <<>>,
     chunks |-> 0, returned |-> FALSE, stdout |-> <<>>, stderr |-> <<>>]

InitSubprocess ==
    /\ sub = NoSubprocess
    /\ TranscodeIdle
    /\ MarshalIdle
    /\ BridgeIdle
    /\ IdleExcept("subprocess")

\* script_subprocess_exec up to mp_subprocess
SubprocessExec ==
    /\ sub.pc = "script"
    /\ \E v \in MaxSizes :
          sub' = [NoSubprocess EXCEPT
                     !.pc = "child",
                     !.max_size = script_subprocess_exec_max_size(v)]
    /\ UNCHANGED NotSubprocess

\* mp_subprocess read a chunk from the child's stdout
SubprocessStdout ==
    /\ sub.pc = "child"
    /\ sub.chunks < MaxChunks
    /\ \E data \in Chunks :
          sub' = [subprocess_stdout(sub, data) EXCEPT !.chunks = @ + 1]
    /\ UNCHANGED NotSubprocess

\* mp_subprocess read a chunk from the child's stderr
SubprocessStderr ==
    /\ sub.pc = "child"
    /\ sub.chunks < MaxChunks
    /\ \E data \in Chunks :
          sub' = [subprocess_stderr(sub, data) EXCEPT !.chunks = @ + 1]
    /\ UNCHANGED NotSubprocess

\* mp_subprocess returns: the result object with stdout and stderr
SubprocessReturns ==
    /\ sub.pc = "child"
    /\ sub' = [sub EXCEPT
                  !.pc = "script", !.returned = TRUE,
                  !.stdout = u_js_pushlstring(sub.output, Len(sub.output),
                                 U8J_IMPL_STACK_BUF_SIZ, TRUE).pushed,
                  !.stderr = u_js_pushlstring(sub.err, Len(sub.err),
                                 U8J_IMPL_STACK_BUF_SIZ, TRUE).pushed]
    /\ UNCHANGED NotSubprocess

NextSubprocess ==
    \/ SubprocessExec
    \/ SubprocessStdout
    \/ SubprocessStderr
    \/ SubprocessReturns

SpecSubprocess == InitSubprocess /\ [][NextSubprocess]_vars

\* C23: the stdout and the stderr string utils.subprocess returns hold at
\* most max_size bytes each
C23_Bounded ==
    sub.returned =>
        /\ Len(sub.stdout) <= sub.max_size
        /\ Len(sub.stderr) <= sub.max_size

\* what the code keeps to: a chunk is taken whole while less than max_size
\* bytes are there, so less than max_size plus one chunk is returned
C23_BoundedByChunk ==
    \A buf \in {sub.output, sub.err} :
        buf # <<>> =>
            \E data \in Chunks : Len(buf) - Len(data) < sub.max_size

\* max_size = 1 and three bytes returned from stdout
C23_Witness ==
    /\ sub.returned
    /\ sub.max_size = 1
    /\ sub.chunks = 1
    /\ sub.stdout = <<97, 98, 99>>

(***************************************************************************)
(* SpecUnwind: the bridge calls that hold a temporary buffer of the host   *)
(* while they work on the engine.  An engine function raises by longjmp:   *)
(* what follows it in the C function is not run.                           *)
(*   tmp   heap: every temporary buffer that was allocated, with what it   *)
(*         is (kind), how often it was freed (frees) and how the call that *)
(*         made it was left ("return" | "raise" | "killed");               *)
(*         fn: the last call                                               *)
(***************************************************************************)
MaxTemps == 3       \* the temporary buffers allocated in a behaviour

talloc_new(heap, kind) ==
    Append(heap, [kind |-> kind, frees |-> 0, left |-> "return"])

talloc_free(heap, p) == [heap EXCEPT ![p].frees = @ + 1]

\* the call is left by an exception of the engine, or the process is killed
LeftBy(heap, p, how) == [heap EXCEPT ![p].left = how]

\* u_js_tostring of the value: a string that has to be converted needs an
\* allocation, and u8j__malloc throws when there is no memory
js_tostring_throws(v, ok) ==
    /\ js_isstring(v)
    /\ u8j_utf8_len(v.s) # 0
    /\ u8j__malloc(u8j_utf8_len(v.s) + 1, ok).thrown

\* u_js_pushstring of a host string: throws when the conversion needs an
\* allocation and there is no memory
js_pushstring_throws(str, ok) ==
    u8j__as_cesu8(str, MaxBufSiz, ok).ret = "throw"

\* script_set_property_native.  The heap at the end.
set_property_native_tmp(heap, v, ok) ==
    LET h == talloc_new(heap, "set_property_native")
        p == Len(h)
    IN  IF js_tostring_throws(v, ok)        \* makenode(tmp, &node, J, 2)
        THEN LeftBy(h, p, "raise")
        ELSE talloc_free(h, p)

\* script_get_property: the host allocates result when it succeeds
get_property_result(heap, err, result, ok) ==
    IF handledAsErrDef(Enter(<<Name, JsUndefined>>), err).handled = 1
    THEN heap
    ELSE LET h == talloc_new(heap, "get_property")
             p == Len(h)
         IN  IF js_pushstring_throws(result, ok)
             THEN LeftBy(h, p, "raise")
             ELSE talloc_free(h, p)

\* What pushnode(tmp, &result) does in script_command_native: its first
\* argument is the talloc context, not the engine, so the engine functions
\* it calls work on memory that is no js_State (undefined behaviour).
NotAnEngine == {"returns", "raises", "killed"}

\* script_command_native
command_native_tmp(heap, v, err, ub, ok) ==
    LET h == talloc_new(heap, "command_native")
        p == Len(h)
    IN  IF js_tostring_throws(v, ok)        \* makenode(tmp, &cmd, J, 1)
        THEN LeftBy(h, p, "raise")
        ELSE IF handledAsErrDef(Enter(<<v>>), err).handled = 1
        THEN talloc_free(h, p)
        ELSE CASE ub = "returns" -> talloc_free(h, p)
               [] ub = "raises"  -> LeftBy(h, p, "raise")
               [] ub = "killed"  -> LeftBy(h, p, "killed")

\* push_file_content, for a file that is not built in and was opened: n is
\* its size, t what fread returned
push_file_content_s(heap, content, t, alloc_ok, ok) ==
    IF ~alloc_ok THEN heap                  \* if (!s) ... js_error
    ELSE LET h == talloc_new(heap, "read_file")
             p == Len(h)
         IN  IF t # Len(content)
             THEN LeftBy(talloc_free(h, p), p, "raise")
             ELSE IF u_js_pushlstring(content, Len(content), MaxBufSiz,
                                      ok).where = "throw"
             THEN LeftBy(h, p, "raise")
             ELSE talloc_free(h, p)

\* the values, host strings and file contents of the calls
TmpValues == {JsBool(TRUE), JsStr(<<97>>), JsStr(SurrogatePair)}
TmpStrings == {<<97>>, Smp, Smp \o Smp \o Smp}

InitUnwind ==
    /\ tmp = [heap |-> <<>>, fn |-> "none"]
    /\ TranscodeIdle
    /\ MarshalIdle
    /\ BridgeIdle
    /\ IdleExcept("unwind")

SetPropertyNativeTmp ==
    /\ Len(tmp.heap) < MaxTemps
    /\ \E v \in TmpValues, ok \in BOOLEAN :
          tmp' = [heap |-> set_property_native_tmp(tmp.heap, v, ok),
                  fn |-> "set_property_native"]
    /\ UNCHANGED NotUnwind

GetPropertyResult ==
    /\ Len(tmp.heap) < MaxTemps
    /\ \E err \in Statuses, result \in TmpStrings, ok \in BOOLEAN :
          tmp' = [heap |-> get_property_result(tmp.heap, err, result, ok),
                  fn |-> "get_property"]
    /\ UNCHANGED NotUnwind

CommandNativeTmp ==
    /\ Len(tmp.heap) < MaxTemps
    /\ \E v \in TmpValues, err \in Statuses, ub \in NotAnEngine,
          ok \in BOOLEAN :
          tmp' = [heap |-> command_native_tmp(tmp.heap, v, err, ub, ok),
                  fn |-> "command_native"]
    /\ UNCHANGED NotUnwind

ReadFileBuffer ==
    /\ Len(tmp.heap) < MaxTemps
    /\ \E content \in TmpStrings, short \in BOOLEAN, alloc_ok \in BOOLEAN,
          ok \in BOOLEAN :
          tmp' = [heap |-> push_file_content_s(
                               tmp.heap, content,
                               IF short THEN Len(content) - 1
                               ELSE Len(content),
                               alloc_ok, ok),
                  fn |-> "read_file"]
    /\ UNCHANGED NotUnwind

NextUnwind ==
    \/ SetPropertyNativeTmp
    \/ GetPropertyResult
    \/ CommandNativeTmp
    \/ ReadFileBuffer

SpecUnwind == InitUnwind /\ [][NextUnwind]_vars

\* C24: every temporary buffer of set_property_native, command_native,
\* get_property and read_file is freed exactly once on every way out of the
\* call, a raised exception included
C24_FreedOnEveryPath ==
    \A p \in DOMAIN tmp.heap :
        tmp.heap[p].left # "killed" => tmp.heap[p].frees = 1

\* what the code keeps to: no buffer is freed twice, and one is freed when
\* the call returns
C24_FreedOnReturn ==
    \A p \in DOMAIN tmp.heap :
        /\ tmp.heap[p].frees <= 1
        /\ tmp.heap[p].left = "return" => tmp.heap[p].frees = 1

\* js_pushstring raised in get_property, and the host's string was not freed
C24_Witness ==
    /\ tmp.fn = "get_property"
    /\ tmp.heap # <<>>
    /\ tmp.heap[Len(tmp.heap)].kind = "get_property"
    /\ tmp.heap[Len(tmp.heap)].left = "raise"
    /\ tmp.heap[Len(tmp.heap)].frees = 0

(***************************************************************************)
(* SpecCommand: mp.commandv and mp.command_native.                         *)
(*   cmd   the last call: fn; n, the number of arguments the script gave;  *)
(*         args; raised (left by js_error); killed; hosted (the host was   *)
(*         called) and err, its status; argv, the vector handed to         *)
(*         mpv_command; writes, the indexes of args[] that were stored     *)
(*         to; node, the Node handed to mpv_command_node; host, the Node   *)
(*         it gave back; ret, the value returned; les,                     *)
(*         mp.last_error_string after the call, and whether the call set   *)
(*         it (wrote)                                                      *)
(***************************************************************************)
\* the C string js_tostring gives for an argument of commandv
ToCString(st, idx) ==
    IF js_isstring(Slot(st, idx)) THEN js_tostring(st, idx).str
    ELSE <<117, 110, 100, 101, 102, 105, 110, 101, 100>>   \* "undefined"

\* the frame of a C function registered with a length: this, the arguments,
\* and undefined for the declared ones that were not given
Frame0(args, length, padded) ==
    <<JsUndefined>> \o args
        \o (IF padded /\ Len(args) < length
            THEN [i \in 1..(length - Len(args)) |-> JsUndefined] ELSE <<>>)

NoCommand ==
    [fn |-> "none", n |-> 0, args |-> <<>>, raised |-> FALSE,
     killed |-> FALSE, hosted |-> FALSE, err |-> 0, argv |-> <<>>,
     writes |-> {}, node |-> NodeNone, host |-> NodeNone,
     ret |-> JsUndefined, les |-> "", wrote |-> FALSE]

\* script_commandv after mpv_command returned: r is what pushStatus left
script_commandv_status(c, st, length, err, r) ==
    [c EXCEPT
        !.hosted = TRUE, !.err = err,
        \* for (i = 0; i < length - 1; i++) args[i] = ...
        !.argv = [i \in 1..(length - 1) |-> ToCString(st, i)] \o <<NULL>>,
        !.writes = 0..(length - 1),
        !.ret = Slot(r.st, -1), !.les = r.les, !.wrote = r.wrote]

\* script_commandv
script_commandv_call(args, padded, err) ==
    LET b == [Enter(<<>>) EXCEPT !.st = Frame0(args, 1, padded)]
        length == js_gettop(b.st)
        c == [NoCommand EXCEPT !.fn = "commandv", !.n = Len(args),
                               !.args = args]
    IN  IF length = 0 \/ length > MAX_LENGTH_COMMANDV
        THEN [c EXCEPT !.raised = TRUE]
        ELSE script_commandv_status(c, b.st, length, err, pushStatus(b, err))

\* script_command_native after handledAsErrDef (r): ub is what
\* pushnode(tmp, &result) does
script_command_native_result(c, r, result, ub) ==
    IF r.handled = 1 THEN [c EXCEPT !.ret = Slot(r.b.st, -1)]
    ELSE CASE ub = "returns" ->
                [c EXCEPT !.host = result, !.ret = Slot(r.b.st, -1)]
           [] ub = "raises" -> [c EXCEPT !.host = result, !.raised = TRUE]
           [] ub = "killed" -> [c EXCEPT !.host = result, !.killed = TRUE]

\* script_command_native after mpv_command_node returned err for the node
\* makenode made (m)
script_command_native_status(args, m, err, r, result, ub) ==
    script_command_native_result(
        [NoCommand EXCEPT !.fn = "command_native", !.n = Len(args),
                          !.args = args, !.node = m.node,
                          !.hosted = TRUE, !.err = err,
                          !.les = r.b.les, !.wrote = r.b.wrote],
        r, result, ub)

\* script_command_native after makenode(tmp, &cmd, J, 1)
script_command_native_node(args, b, m, err, result, ub) ==
    script_command_native_status(
        args, m, err, handledAsErrDef([b EXCEPT !.st = m.st], err),
        result, ub)

\* script_command_native
script_command_native_call(args, plat, err, result, ub) ==
    LET b == [Enter(<<>>) EXCEPT !.st = Frame0(args, 1, TRUE)]
    IN  script_command_native_node(args, b, makenode(b.st, 1, plat), err,
                                   result, ub)

\* n arguments of commandv: the command, then "a", "b", "a", ...
CommandvArgs(first, n) ==
    [i \in 1..n |-> IF i = 1 THEN JsStr(first)
                    ELSE JsStr(<<97 + (i % 2)>>)]

InitCommand ==
    /\ cmd = NoCommand
    /\ TranscodeIdle
    /\ MarshalIdle
    /\ BridgeIdle
    /\ IdleExcept("command")

Commandv ==
    /\ ~cmd.killed
    /\ \E n \in {0, 1, 2, MAX_LENGTH_COMMANDV - 1, MAX_LENGTH_COMMANDV,
                 MAX_LENGTH_COMMANDV + 1},
          first \in {<<120>>, SurrogatePair}, padded \in BOOLEAN,
          err \in Statuses :
          cmd' = script_commandv_call(CommandvArgs(first, n), padded, err)
    /\ UNCHANGED NotCommand

CommandNative ==
    /\ ~cmd.killed
    /\ \E v \in NativeArgs, def \in {<<>>, <<JsNull>>},
          order \in EnumOrders, fpcast \in FpCasts, err \in Statuses,
          result \in HostNodes, ub \in NotAnEngine :
          cmd' = script_command_native_call(
                     <<v>> \o def, [order |-> order, fpcast |-> fpcast],
                     err, result, ub)
    /\ UNCHANGED NotCommand

NextCommand == Commandv \/ CommandNative

SpecCommand == InitCommand /\ [][NextCommand]_vars

\* C27: commandv with n arguments hands them to the host, in order and
\* followed by NULL, iff 1 <= n <= MAX_LENGTH_COMMANDV; for any other n it
\* raises and the host is not called; no store goes outside args[]
C27_Range ==
    cmd.fn = "commandv" =>
        /\ cmd.writes \subseteq 0..MAX_LENGTH_COMMANDV
        /\ IF cmd.n \in 1..MAX_LENGTH_COMMANDV
           THEN /\ cmd.hosted /\ ~cmd.raised
                /\ cmd.argv = [i \in 1..cmd.n |-> Utf8Of(cmd.args[i].s)]
                                 \o <<NULL>>
           ELSE cmd.raised /\ ~cmd.hosted

\* what the code keeps to: up to MAX_LENGTH_COMMANDV - 1 arguments are
\* handed on, more are refused, and no store goes outside args[]
C27_RangeLessOne ==
    cmd.fn = "commandv" =>
        /\ cmd.writes \subseteq 0..MAX_LENGTH_COMMANDV
        /\ cmd.n \in 1..(MAX_LENGTH_COMMANDV - 1)
              => /\ cmd.hosted /\ ~cmd.raised
                 /\ cmd.argv = [i \in 1..cmd.n |-> Utf8Of(cmd.args[i].s)]
                                  \o <<NULL>>
        /\ cmd.n >= MAX_LENGTH_COMMANDV => cmd.raised /\ ~cmd.hosted
        /\ cmd.n = 0 => cmd.hosted /\ ~cmd.raised

\* commandv with MAX_LENGTH_COMMANDV arguments was refused
C27_Witness ==
    /\ cmd.fn = "commandv"
    /\ cmd.n = MAX_LENGTH_COMMANDV
    /\ cmd.raised
    /\ ~cmd.hosted

\* C26: command_native calls the host with its argument as a Node; on a
\* status >= 0 it returns the host's result as a value of the script's
\* engine; on a status < 0 it returns undefined or the default given, and
\* mp.last_error_string tells the error
C26_ReturnsResult ==
    cmd.fn = "command_native" =>
        /\ cmd.hosted
        /\ cmd.err >= 0
              => /\ ~cmd.killed /\ ~cmd.raised
                 /\ MapsToValue(cmd.host, cmd.ret)
        /\ cmd.err < 0
              => /\ cmd.ret = IF cmd.n > 1 THEN cmd.args[2] ELSE JsUndefined
                 /\ cmd.les = mpv_error_string(cmd.err)

\* what the code keeps to: the failure of the host is reported
C26_OnFailure ==
    (cmd.fn = "command_native" /\ cmd.err < 0) =>
        /\ cmd.hosted /\ ~cmd.killed /\ ~cmd.raised
        /\ cmd.ret = IF cmd.n > 1 THEN cmd.args[2] ELSE JsUndefined
        /\ cmd.les = mpv_error_string(cmd.err)

\* the host succeeded with the result 1, and command_native returned its
\* own argument
C26_Witness ==
    /\ cmd.fn = "command_native"
    /\ cmd.err >= 0
    /\ ~cmd.killed /\ ~cmd.raised
    /\ cmd.host = NodeInt64(I64(1))
    /\ cmd.args = <<JsBool(TRUE)>>
    /\ cmd.ret = JsBool(TRUE)

(***************************************************************************)
(* SpecReaddir: utils.readdir.                                             *)
(*   dirs   open: the DIR handles that are open; opened: how many opendir  *)
(*          returned; fn, mode, raised and ret: the last call              *)
(* A directory is the sequence of its entries [name, kind], kind being     *)
(* what stat says: "reg", "dir", "other", or "gone" when stat fails.       *)
(***************************************************************************)
MaxDirs == 3        \* the calls of utils.readdir in a behaviour

\* checkoption(J, 2, "normal", fmts): the index of the option, -1 when it
\* raises "Unknown option"
checkoption(v, def, opts) ==
    LET opt == IF js_isstring(v) THEN js_tostring(<<v>>, 0).str ELSE def
    IN  IF \E i \in DOMAIN opts : opts[i] = opt
        THEN (CHOOSE i \in DOMAIN opts : opts[i] = opt) - 1
        ELSE -1

\* "all", "files", "dirs", "normal"
Fmts ==
    << <<97, 108, 108>>, <<102, 105, 108, 101, 115>>, <<100, 105, 114, 115>>,
       <<110, 111, 114, 109, 97, 108>> >>

\* while ((e = readdir(dir))): the list, with the entries up to e in it
RECURSIVE script_readdir_loop(_, _, _, _, _)
script_readdir_loop(st, entries, t, e, n) ==
    IF e > Len(entries) THEN st
    ELSE LET name == entries[e].name
             kind == entries[e].kind
             skip == /\ t # 0
                     /\ \/ name = <<46>> \/ name = <<46, 46>>
                        \/ kind = "gone"
                        \/ ~ \/ (t % 2 = 1 /\ kind = "reg")
                             \/ (t \div 2 = 1 /\ kind = "dir")
         IN  IF skip THEN script_readdir_loop(st, entries, t, e + 1, n)
             ELSE script_readdir_loop(
                      js_setindex(js_pushstring(st, name), -2, n),
                      entries, t, e + 1, n + 1)

\* script_readdir: dir is what is at the path (opendir fails when nothing
\* is).
\* [raised, opendir, closedir, ret, les]
script_readdir(mode, dir) ==
    LET t == checkoption(mode, Fmts[4], Fmts)
        b == Enter(<<JsStr(<<120>>), mode>>)
    IN  IF t < 0
        THEN [raised |-> TRUE, opendir |-> 0, closedir |-> 0,
              ret |-> JsUndefined, les |-> b.les]
        ELSE IF ~dir.exists
        THEN [raised |-> FALSE, opendir |-> 0, closedir |-> 0,
              ret |-> JsUndefined,
              les |-> set_last_error(b, 0, "Cannot open dir").les]
        ELSE [raised |-> FALSE, opendir |-> 1, closedir |-> 0,
              ret |-> Slot(script_readdir_loop(
                               js_push(b.st, JsArray(<<>>)), dir.entries, t,
                               1, 0),
                           -1),
              les |-> b.les]

DirEntries ==
    {[name |-> <<46>>, kind |-> "dir"], [name |-> <<46, 46>>, kind |-> "dir"],
     [name |-> <<97>>, kind |-> "reg"], [name |-> <<98>>, kind |-> "dir"],
     [name |-> <<99>>, kind |-> "other"], [name |-> Smp, kind |-> "gone"]}

\* no directory, an empty one, one with an entry or two
Directories ==
    {[exists |-> FALSE, entries |-> <<>>]}
        \cup [exists : {TRUE},
              entries : {<<>>} \cup { <<e>> : e \in DirEntries }
                  \cup { <<e, f>> : e \in DirEntries, f \in DirEntries }]

\* the second argument: a known mode, none, no string, an unknown mode
Modes ==
    { JsStr(Fmts[i]) : i \in 1..4 }
        \cup {JsUndefined, JsNum(Dbl(2)), JsStr(<<120>>)}

InitReaddir ==
    /\ dirs = [open |-> 0, opened |-> 0, calls |-> 0, fn |-> "none",
               mode |-> JsUndefined, raised |-> FALSE, ret |-> JsUndefined]
    /\ TranscodeIdle
    /\ MarshalIdle
    /\ BridgeIdle
    /\ IdleExcept("readdir")

Readdir ==
    /\ dirs.calls < MaxDirs
    /\ \E mode \in Modes, dir \in Directories :
          LET r == script_readdir(mode, dir)
          IN  dirs' = [open |-> dirs.open + r.opendir - r.closedir,
                       opened |-> dirs.opened + r.opendir,
                       calls |-> dirs.calls + 1, fn |-> "readdir",
                       mode |-> mode, raised |-> r.raised, ret |-> r.ret]
    /\ UNCHANGED NotReaddir

NextReaddir == Readdir

SpecReaddir == InitReaddir /\ [][NextReaddir]_vars

\* C30: when a call of utils.readdir has returned or raised, no directory
\* handle it opened is open
C30_AllClosed == dirs.open = 0

\* what the code keeps to: no directory is opened when the mode is refused,
\* and no handle is ever closed
C30_NoneClosed ==
    /\ dirs.open = dirs.opened
    /\ dirs.raised => dirs.ret = JsUndefined

\* two calls listed a directory, and two handles are open
C30_Witness ==
    /\ dirs.fn = "readdir"
    /\ ~dirs.raised
    /\ dirs.ret = JsArray(<<JsStr(<<97>>)>>)
    /\ dirs.calls = 2
    /\ dirs.open = 2

\* what a script thread logs after load_javascript released its engine
AfterLoad == {"MP_ERR", "Exiting", "mpv_detach_destroy"}

\* the steps of a log that follow the first what (none when it is absent)
StepsAfter(log, what) ==
    IF First(log, what) = 0 THEN {}
    ELSE {log[n] : n \in (First(log, what) + 1)..Len(log)}

C29_Exit(i) ==
    LET t == rt[i]
        log == t.log
        created == First(log, "js_newstate") # 0
        left == t.pc \in {"loaded", "done"}
    IN  /\ Count(log, "mp_resume_all") = (IF left THEN 1 ELSE 0)
        /\ Count(log, "js_freestate") = (IF left /\ created THEN 1 ELSE 0)
        /\ Count(log, "mpv_detach_destroy") = (IF t.pc = "done" THEN 1 ELSE 0)
        /\ created <=> t.J # "none"
        /\ t.J = "freed" <=> Count(log, "js_freestate") = 1
        /\ t.pc = "done"
             => /\ First(log, "mp_resume_all") < First(log, "mpv_detach_destroy")
                /\ First(log, "js_freestate") < First(log, "mpv_detach_destroy")
        /\ StepsAfter(log, "js_freestate") \subseteq AfterLoad

\* C29: on every exit path of load_javascript (engine creation failed, fatal
\* script error, normal return of the entry function) mp_resume_all is
\* called exactly once, js_freestate exactly once if and only if js_newstate
\* made an engine, and only afterwards the script thread destroys the client
\* handle exactly once; nothing runs on an engine after js_freestate
C29_ExitPaths == \A i \in Scripts : C29_Exit(i)

\* one thread ended without an engine, the other after its engine was freed
C29_Witness ==
    \E i, j \in Scripts :
        /\ rt[i].pc = "done" /\ rt[i].J = "none"
        /\ Count(rt[i].log, "mp_resume_all") = 1
        /\ Count(rt[i].log, "mpv_detach_destroy") = 1
        /\ rt[j].pc = "done" /\ rt[j].J = "freed"
        /\ First(rt[j].log, "call mp_event_loop") # 0

\* script i failed to load: no engine, an exception in its files, or no
\* entry function
LoadFailed(i) ==
    /\ rt[i].pc \in {"caught", "error_out", "loaded", "done"}
    /\ First(rt[i].log, "call mp_event_loop") = 0

\* the engine of script j is made, used and freed in the steps of its own
\* thread only: a step changes the state of one script
C25_OwnEngine ==
    \A i, j \in Scripts :
        (i # j /\ rt'[i] # rt[i]) => rt'[j] = rt[j]

\* the load of script j went well whatever became of the others
C25_Loaded(j) ==
    LET log == rt[j].log
    IN  /\ rt[j].pc = "event_loop"
             => /\ rt[j].J = "live" /\ ~rt[j].raised
                /\ Before(log, "js_newstate", "add_functions")
                /\ Before(log, "main", "call mp_event_loop")
                /\ log[Len(log)] = "call mp_event_loop"
        /\ rt[j].J = "live" <=> rt[j].pc \in {"add_functions", "defaults",
                                   "main", "entry", "event_loop", "caught",
                                   "error_out"} /\ First(log, "js_newstate") # 0

=============================================================================
